---- MODULE Spec2Model ----
(***************************************************************************)
(* Model of src/app.py: the static index (AnimeIndex), the persistent      *)
(* cache (CacheManager), the resolution pipeline (AnimePaheBackend) and    *)
(* the route handlers that drive them.                                     *)
(*                                                                         *)
(* Time is counted in hours.  A cache file's modification time is the hour *)
(* of its last write.  Python's None is the string None where a string is  *)
(* expected, NonePage where a page number is expected, and the empty       *)
(* sequence where an optional value (Some(x) == <<x>>) is expected.        *)
(***************************************************************************)
EXTENDS Integers, Sequences, FiniteSets, TLC

(* ------------------------------ bounds --------------------------------- *)
TickHours == 12              \* the clock advances in steps of TickHours
MaxNow == 36                 \* the clock stops at MaxNow
MaxTasks == 2                \* coroutines in flight on the event loop
MaxScraped == 4              \* episode records handed to remove_duplicate_episodes
MaxEpisodes == 120           \* episodes of the longest title in the index
MaxPage == 4                 \* pages asked of get_episodes

(* --------------------------- program constants ------------------------- *)
TTL_HOURS == 24              \* timedelta(hours=24)
STARTUP_SWEEP_DAYS == 7      \* clear_old_cache(days=7) in async_setup
HOURS_PER_DAY == 24          \* timedelta(days=d) in hours

None == "None"
NonePage == 0
Raise == "Raise"
Some(x) == <<x>>
Nothing == <<>>

AnimeIds == {"a1", "a2"}
Sessions == {"s1", "s2"}

(* ------------------------------- state --------------------------------- *)
VARIABLES
  all_anime,    \* AnimeIndex.all_anime
  cache,        \* CacheManager.cache
  last_mtime,   \* CacheManager.last_mtime
  file,         \* the cache file data.json
  disk,         \* what the disk does to a write: one of WriteOutcomes
  now,          \* the clock, in hours
  ready,        \* AnimePaheBackend.ready
  preload,      \* the preload_home_data task is scheduled and has not run
  setup_pc,     \* the setup thread: "start" before async_setup, "done" after
  lastCall,     \* the last handler that ran: its arguments and what it did
  tasks         \* the coroutines submitted to the worker's event loop

vars == <<all_anime, cache, last_mtime, file, disk, now, ready, preload, setup_pc,
          lastCall, tasks>>

Store == [cache |-> cache, last_mtime |-> last_mtime, file |-> file, disk |-> disk]

(* ------------------------------ helpers -------------------------------- *)
EmptyMap == [k \in {} |-> None]
Put(f, k, v) == [x \in (DOMAIN f) \cup {k} |-> IF x = k THEN v ELSE f[x]]
Drop(f, ks) == [x \in (DOMAIN f) \ ks |-> f[x]]
Get(f, k, d) == IF k \in DOMAIN f THEN f[k] ELSE d

\* the slots of the event loop and a slot holding no coroutine
\* LET x == v IN F(x), with v computed once
With(v, F(_)) == CHOOSE r \in {F(x) : x \in {v}} : TRUE

TaskIds == 1..MaxTasks
FreeTask == [pc |-> "free", anime |-> None, session |-> None, snap |-> EmptyMap]

(* ------------------------------- text ---------------------------------- *)
(* A string is the sequence of its characters.  Beside the ASCII letters,  *)
(* digits, space and full stop there are four characters outside ASCII:    *)
(* a_acute and A_ACUTE (the letter a with an acute accent, small and       *)
(* capital) and cjk1, cjk2 (two ideographs).                               *)
ToLower ==
  ("A" :> "a") @@ ("B" :> "b") @@ ("C" :> "c") @@ ("D" :> "d") @@ ("E" :> "e") @@ ("F" :> "f") @@
  ("G" :> "g") @@ ("H" :> "h") @@ ("I" :> "i") @@ ("J" :> "j") @@ ("K" :> "k") @@ ("L" :> "l") @@
  ("M" :> "m") @@ ("N" :> "n") @@ ("O" :> "o") @@ ("P" :> "p") @@ ("Q" :> "q") @@ ("R" :> "r") @@
  ("S" :> "s") @@ ("T" :> "t") @@ ("U" :> "u") @@ ("V" :> "v") @@ ("W" :> "w") @@ ("X" :> "x") @@
  ("Y" :> "y") @@ ("Z" :> "z") @@
  ("A_ACUTE" :> "a_acute")

\* str.lower(), one character
LowerChar(c) == IF c \in DOMAIN ToLower THEN ToLower[c] ELSE c

\* str.lower()
LowerStr(str) == [i \in 1..Len(str) |-> LowerChar(str[i])]

\* the code point of a character, which orders strings
CodePoint ==
  (" " :> 32) @@ ("." :> 46) @@ ("0" :> 48) @@ ("1" :> 49) @@ ("2" :> 50) @@ ("3" :> 51) @@
  ("4" :> 52) @@ ("5" :> 53) @@ ("6" :> 54) @@ ("7" :> 55) @@ ("8" :> 56) @@ ("9" :> 57) @@
  ("A" :> 65) @@ ("B" :> 66) @@ ("C" :> 67) @@ ("D" :> 68) @@ ("E" :> 69) @@ ("F" :> 70) @@
  ("G" :> 71) @@ ("H" :> 72) @@ ("I" :> 73) @@ ("J" :> 74) @@ ("K" :> 75) @@ ("L" :> 76) @@
  ("M" :> 77) @@ ("N" :> 78) @@ ("O" :> 79) @@ ("P" :> 80) @@ ("Q" :> 81) @@ ("R" :> 82) @@
  ("S" :> 83) @@ ("T" :> 84) @@ ("U" :> 85) @@ ("V" :> 86) @@ ("W" :> 87) @@ ("X" :> 88) @@
  ("Y" :> 89) @@ ("Z" :> 90) @@ ("a" :> 97) @@ ("b" :> 98) @@ ("c" :> 99) @@ ("d" :> 100) @@
  ("e" :> 101) @@ ("f" :> 102) @@ ("g" :> 103) @@ ("h" :> 104) @@ ("i" :> 105) @@ ("j" :> 106) @@
  ("k" :> 107) @@ ("l" :> 108) @@ ("m" :> 109) @@ ("n" :> 110) @@ ("o" :> 111) @@ ("p" :> 112) @@
  ("q" :> 113) @@ ("r" :> 114) @@ ("s" :> 115) @@ ("t" :> 116) @@ ("u" :> 117) @@ ("v" :> 118) @@
  ("w" :> 119) @@ ("x" :> 120) @@ ("y" :> 121) @@ ("z" :> 122) @@
  ("A_ACUTE" :> 193) @@ ("a_acute" :> 225) @@ ("cjk1" :> 26085) @@ ("cjk2" :> 26412)

\* needle in haystack
IsSubstring(needle, haystack) ==
  \E i \in 0..Len(haystack) :
    /\ i + Len(needle) <= Len(haystack)
    /\ SubSeq(haystack, i + 1, i + Len(needle)) = needle

\* haystack.startswith(needle)
StartsWith(haystack, needle) ==
  /\ Len(needle) <= Len(haystack)
  /\ SubSeq(haystack, 1, Len(needle)) = needle

(* --------------------------- CacheManager ------------------------------ *)
(* A store is [cache, last_mtime, file, disk]: the in-memory dictionary,    *)
(* the last modification time this process observed, the file on disk, and *)
(* what the disk does to the next write.                                   *)

TopKeys == {"anime_episodes", "episode_iframes", "currently_airing_episodes",
            "popular_anime", "metadata"}

get_default_cache(t) ==
  [anime_episodes |-> EmptyMap,
   episode_iframes |-> EmptyMap,
   currently_airing_episodes |-> [episodes |-> <<>>, timestamp |-> t, count |-> 0],
   popular_anime |-> [anime |-> <<>>, timestamp |-> t, count |-> 0],
   metadata |-> [created_at |-> t, last_updated |-> t]]

NoFile == [exists |-> FALSE, parsable |-> FALSE, content |-> EmptyMap, mtime |-> 0]

\* variant: the loaded document is taken as it is
load_cache_no_fill(st, t) ==
  IF st.file.exists /\ st.file.parsable
  THEN [st EXCEPT !.cache = st.file.content, !.last_mtime = st.file.mtime]
  ELSE [st EXCEPT !.cache = get_default_cache(t), !.last_mtime = 0]

\* load_cache: read the file, fill in missing top-level keys; on a missing
\* or unparsable file fall back to the default cache and last_mtime 0.
load_cache(st, t) ==
  IF st.file.exists /\ st.file.parsable
  THEN [st EXCEPT !.cache = [k \in TopKeys |->
                               IF k \in DOMAIN st.file.content
                               THEN st.file.content[k]
                               ELSE get_default_cache(t)[k]],
                  !.last_mtime = st.file.mtime]
  ELSE [st EXCEPT !.cache = get_default_cache(t), !.last_mtime = 0]

\* check_and_reload: reload when the file exists and is newer than last seen.
check_and_reload(st, t) ==
  IF ~st.file.exists THEN st
  ELSE IF st.file.mtime > st.last_mtime THEN load_cache(st, t)
  ELSE st

WriteOutcomes == {"ok", "open_fails", "dump_fails"}

\* variant: the write is left for later
save_cache_deferred(st, t) ==
  [st EXCEPT !.cache = [st.cache EXCEPT !.metadata.last_updated = t]]

\* variant: the modification time is recorded whether or not the write worked
save_cache_mtime_always(st, t) ==
  LET c == [st.cache EXCEPT !.metadata.last_updated = t]
  IN  CASE st.disk = "ok" ->
             [st EXCEPT !.cache = c, !.last_mtime = t,
                        !.file = [exists |-> TRUE, parsable |-> TRUE,
                                  content |-> c, mtime |-> t]]
        [] st.disk = "open_fails" ->
             [st EXCEPT !.cache = c, !.last_mtime = t]
        [] OTHER ->
             [st EXCEPT !.cache = c, !.last_mtime = t,
                        !.file = [exists |-> TRUE, parsable |-> FALSE,
                                  content |-> EmptyMap, mtime |-> t]]

\* save_cache: stamp metadata.last_updated, rewrite the whole file, record
\* its modification time.  A failure to open leaves the file as it was; a
\* failure while dumping leaves a truncated file.  Both are swallowed.
save_cache(st, t) ==
  LET c == [st.cache EXCEPT !.metadata.last_updated = t]
  IN  CASE st.disk = "ok" ->
             [st EXCEPT !.cache = c, !.last_mtime = t,
                        !.file = [exists |-> TRUE, parsable |-> TRUE,
                                  content |-> c, mtime |-> t]]
        [] st.disk = "open_fails" ->
             [st EXCEPT !.cache = c]
        [] OTHER ->
             [st EXCEPT !.cache = c,
                        !.file = [exists |-> TRUE, parsable |-> FALSE,
                                  content |-> EmptyMap, mtime |-> t]]

\* dict truthiness of a cached record
Truthy(rec) == DOMAIN rec # {}

\* variant: an episode list expires like a listing
get_anime_episodes_expiring(st, anime_id) ==
  IF anime_id \in DOMAIN st.cache.anime_episodes
     /\ Truthy(st.cache.anime_episodes[anime_id])
     /\ now - st.cache.anime_episodes[anime_id].timestamp < TTL_HOURS
  THEN LET d  == st.cache.anime_episodes[anime_id]
           d1 == IF "current_page" \in DOMAIN d THEN d ELSE Put(d, "current_page", 1)
           d2 == IF "next_page" \in DOMAIN d1 THEN d1 ELSE Put(d1, "next_page", NonePage)
       IN  [st |-> [st EXCEPT !.cache.anime_episodes[anime_id] = d2], ret |-> Some(d2)]
  ELSE [st |-> st, ret |-> Nothing]

get_anime_episodes(st, anime_id) ==
  IF anime_id \in DOMAIN st.cache.anime_episodes
     /\ Truthy(st.cache.anime_episodes[anime_id])
  THEN LET d  == st.cache.anime_episodes[anime_id]
           d1 == IF "current_page" \in DOMAIN d THEN d ELSE Put(d, "current_page", 1)
           d2 == IF "next_page" \in DOMAIN d1 THEN d1 ELSE Put(d1, "next_page", NonePage)
       IN  [st |-> [st EXCEPT !.cache.anime_episodes[anime_id] = d2], ret |-> Some(d2)]
  ELSE [st |-> st, ret |-> Nothing]

set_anime_episodes(st, anime_id, anime_data, t) ==
  LET e == [title |-> anime_data.title,
            episodes |-> anime_data.episodes,
            total_episodes |-> Get(anime_data, "total_episodes", 0),
            has_next_page |-> Get(anime_data, "has_next_page", FALSE),
            current_page |-> Get(anime_data, "current_page", 1),
            next_page |-> Get(anime_data, "next_page", NonePage),
            timestamp |-> t]
  IN  save_cache([st EXCEPT !.cache.anime_episodes = Put(@, anime_id, e)], t)

get_episode_iframe(st, anime_id, episode_session) ==
  LET anime_cache == Get(st.cache.episode_iframes, anime_id, EmptyMap)
  IN  IF episode_session \in DOMAIN anime_cache
      THEN Some(anime_cache[episode_session]) ELSE Nothing

\* variant: only successful outcomes are stored
set_episode_iframe_success_only(st, anime_id, episode_session, iframe_data, t) ==
  LET m0 == st.cache.episode_iframes
      m1 == IF anime_id \in DOMAIN m0 THEN m0 ELSE Put(m0, anime_id, EmptyMap)
      e  == [iframe_url |-> iframe_data.iframe_url,
             timestamp |-> t,
             success |-> iframe_data.success]
      m2 == Put(m1, anime_id, Put(m1[anime_id], episode_session, e))
  IN  IF iframe_data.success
      THEN save_cache([st EXCEPT !.cache.episode_iframes = m2], t)
      ELSE st

set_episode_iframe(st, anime_id, episode_session, iframe_data, t) ==
  LET m0 == st.cache.episode_iframes
      m1 == IF anime_id \in DOMAIN m0 THEN m0 ELSE Put(m0, anime_id, EmptyMap)
      e  == [iframe_url |-> iframe_data.iframe_url,
             timestamp |-> t,
             success |-> iframe_data.success]
      m2 == Put(m1, anime_id, Put(m1[anime_id], episode_session, e))
  IN  save_cache([st EXCEPT !.cache.episode_iframes = m2], t)

\* variant: an entry exactly 24 hours old still counts as fresh
Fresh_inclusive(ts, t) == t - ts <= TTL_HOURS

\* datetime.now() - cache_time < timedelta(hours=24)
Fresh(ts, t) == t - ts < TTL_HOURS

get_currently_airing_episodes(st, t) ==
  LET d == st.cache.currently_airing_episodes
  IN  IF Truthy(d) /\ "timestamp" \in DOMAIN d /\ Fresh(d.timestamp, t)
      THEN Some(Get(d, "episodes", <<>>)) ELSE Nothing

set_currently_airing_episodes(st, episodes_list, t) ==
  save_cache([st EXCEPT !.cache.currently_airing_episodes =
                [episodes |-> episodes_list, timestamp |-> t,
                 count |-> Len(episodes_list)]], t)

get_popular_anime(st, t) ==
  LET d == st.cache.popular_anime
  IN  IF Truthy(d) /\ "timestamp" \in DOMAIN d /\ Fresh(d.timestamp, t)
      THEN Some(Get(d, "anime", <<>>)) ELSE Nothing

set_popular_anime(st, anime_list, t) ==
  save_cache([st EXCEPT !.cache.popular_anime =
                [anime |-> anime_list, timestamp |-> t,
                 count |-> Len(anime_list)]], t)

RECURSIVE SumLens(_, _)
SumLens(m, ks) ==
  IF ks = {} THEN 0
  ELSE LET k == CHOOSE x \in ks : TRUE
       IN  Cardinality(DOMAIN m[k]) + SumLens(m, ks \ {k})

get_cache_stats(st) ==
  [anime_cached |-> Cardinality(DOMAIN st.cache.anime_episodes),
   iframes_cached |-> SumLens(st.cache.episode_iframes, DOMAIN st.cache.episode_iframes),
   currently_airing_episodes_cached |-> Get(st.cache.currently_airing_episodes, "count", 0),
   popular_anime_cached |-> Get(st.cache.popular_anime, "count", 0),
   created_at |-> st.cache.metadata.created_at,
   last_updated |-> st.cache.metadata.last_updated]

\* clear_old_cache: drop episode lists and iframe entries stamped before the
\* cutoff, drop titles left without iframe entries, save if anything went.
\* variant: an entry stamped exactly at the cutoff goes too
Old_inclusive(d, cutoff) == "timestamp" \in DOMAIN d /\ d.timestamp <= cutoff

Old(d, cutoff) == "timestamp" \in DOMAIN d /\ d.timestamp < cutoff

clear_old_cache(st, days, t) ==
  LET cutoff == t - days * HOURS_PER_DAY
      ae   == st.cache.anime_episodes
      oldA == {a \in DOMAIN ae : Old(ae[a], cutoff)}
      ifr  == st.cache.episode_iframes
      oldI(a) == {s \in DOMAIN ifr[a] : Old(ifr[a][s], cutoff)}
      kept == {a \in DOMAIN ifr : oldI(a) # DOMAIN ifr[a]}
      ifr2 == [a \in kept |-> Drop(ifr[a], oldI(a))]
      cleared_count == Cardinality(oldA)
                       + Cardinality({p \in (DOMAIN ifr) \X Sessions :
                                        p[2] \in oldI(p[1])})
      st1 == [st EXCEPT !.cache.anime_episodes = Drop(ae, oldA),
                        !.cache.episode_iframes = ifr2]
  IN  [st |-> IF cleared_count > 0 THEN save_cache(st1, t) ELSE st1,
       ret |-> cleared_count]


(* ----------------------------- AnimeIndex ------------------------------ *)
(* all_anime is a sequence of records [id, title, episodes]; an episode is *)
(* [number, episode_id, iframe_url].  A number is [k, v]: k says whether   *)
(* the stored value is an int, a numeric string, another string or None.   *)

Num(n) == [k |-> "int", v |-> n]

\* least i >= from with P(seq[i]) given as the set of matching positions
FirstIndex(match, from, len) ==
  With(match \cap (from..len),
       LAMBDA m : IF m = {} THEN 0 ELSE CHOOSE i \in m : \A k \in m : i <= k)

get_anime_by_id(all, anime_id) ==
  LET i == FirstIndex({j \in 1..Len(all) : all[j].id = anime_id}, 1, Len(all))
  IN  IF i = 0 THEN Nothing ELSE Some(all[i])

get_episode(all, anime_id, episode_session) ==
  LET anime == get_anime_by_id(all, anime_id)
  IN  IF anime # Nothing /\ "episodes" \in DOMAIN anime[1]
      THEN LET eps == anime[1].episodes
               i == FirstIndex({j \in 1..Len(eps) : eps[j].episode_id = episode_session},
                               1, Len(eps))
           IN  IF i = 0 THEN Nothing ELSE Some(eps[i])
      ELSE Nothing

\* float(x) succeeds on ints and numeric strings
Floatable(n) == n.k \in {"int", "numstr"}

\* variant: of two episodes with equal keys the later one comes first
KeyBefore_unstable(eps, j, i) ==
  \/ eps[j].number.v < eps[i].number.v
  \/ eps[j].number.v = eps[i].number.v /\ j > i

\* list.sort(key=...): episode j comes before episode i when its key is
\* smaller, or equal and j stands before i (the sort is stable)
KeyBefore(eps, j, i) ==
  \/ eps[j].number.v < eps[i].number.v
  \/ eps[j].number.v = eps[i].number.v /\ j < i

\* the list sorted by number: position rank[i] takes episode i
StableSort(eps) ==
  With([i \in 1..Len(eps) |->
          1 + Cardinality({j \in 1..Len(eps) : KeyBefore(eps, j, i)})],
       LAMBDA rank :
         [k \in 1..Len(eps) |-> eps[CHOOSE i \in 1..Len(eps) : rank[i] = k]])

\* the loop of get_next_episode over the sorted list
NextAfter(eps, current_session) ==
  With(FirstIndex({j \in 1..Len(eps) :
                     eps[j].episode_id = current_session /\ j + 1 <= Len(eps)},
                  1, Len(eps)),
       LAMBDA h : IF h = 0 THEN Nothing ELSE Some(eps[h + 1]))

\* get_next_episode sorts the record's own episode list in place, then
\* returns the episode after the one whose episode_id is current_session.
get_next_episode(all, anime_id, current_session) ==
  With(FirstIndex({j \in 1..Len(all) : all[j].id = anime_id}, 1, Len(all)),
       LAMBDA i :
         IF i = 0 THEN [all |-> all, ret |-> Nothing]
         ELSE IF "episodes" \notin DOMAIN all[i] THEN [all |-> all, ret |-> Nothing]
         ELSE With(all[i].episodes,
                   LAMBDA eps0 :
                     With(IF \A j \in 1..Len(eps0) : Floatable(eps0[j].number)
                          THEN StableSort(eps0) ELSE eps0,
                          LAMBDA eps :
                            [all |-> [all EXCEPT ![i].episodes = eps],
                             ret |-> NextAfter(eps, current_session)])))

(* ------------------------ AnimeIndex: search --------------------------- *)
SEARCH_LIMIT == 20

RECURSIVE Flatten(_)
Flatten(ss) == IF ss = <<>> THEN <<>> ELSE Head(ss) \o Flatten(Tail(ss))

\* unicodedata.normalize('NFKD', c).encode('ascii', 'ignore'): an accented
\* letter keeps its base letter, a character with no ASCII part goes
ToAscii(c) ==
  IF c = "a_acute" THEN <<"a">>
  ELSE IF c = "A_ACUTE" THEN <<"A">>
  ELSE IF c \in {"cjk1", "cjk2"} THEN <<>>
  ELSE <<c>>

\* str.strip()
RECURSIVE LStrip(_)
LStrip(str) ==
  IF str # <<>> /\ Head(str) = " " THEN LStrip(Tail(str)) ELSE str

RECURSIVE RStrip(_)
RStrip(str) ==
  IF str # <<>> /\ str[Len(str)] = " " THEN RStrip(SubSeq(str, 1, Len(str) - 1))
  ELSE str

Strip(str) == RStrip(LStrip(str))

normalize_text(text) ==
  IF text = <<>> THEN <<>>
  ELSE Strip(Flatten([i \in 1..Len(text) |-> ToAscii(LowerChar(text[i]))]))

\* the length of the common run of a from i and b from j
RECURSIVE MatchLen(_, _, _, _, _, _)
MatchLen(a, b, i, j, ahi, bhi) ==
  IF i > ahi \/ j > bhi THEN 0
  ELSE IF a[i] # b[j] THEN 0
  ELSE 1 + MatchLen(a, b, i + 1, j + 1, ahi, bhi)

\* SequenceMatcher.find_longest_match on a[alo..ahi], b[blo..bhi]: the
\* longest common block, the earliest in a and then in b among the longest
find_longest_match(a, b, alo, ahi, blo, bhi) ==
  With([c \in (alo..ahi) \X (blo..bhi) |-> MatchLen(a, b, c[1], c[2], ahi, bhi)],
       LAMBDA len :
         With(IF DOMAIN len = {} THEN 0
              ELSE CHOOSE k \in 0..(ahi - alo + 1) :
                     /\ \E c \in DOMAIN len : len[c] = k
                     /\ \A c \in DOMAIN len : len[c] <= k,
              LAMBDA best :
                With(IF best = 0 THEN <<alo, blo>>
                     ELSE CHOOSE c \in DOMAIN len :
                            /\ len[c] = best
                            /\ \A c2 \in DOMAIN len :
                                 len[c2] = best =>
                                   c[1] < c2[1] \/ (c[1] = c2[1] /\ c[2] <= c2[2]),
                     LAMBDA first : [i |-> first[1], j |-> first[2], k |-> best])))

\* the characters in the blocks SequenceMatcher.get_matching_blocks finds
RECURSIVE Matches(_, _, _, _, _, _)
Matches(a, b, alo, ahi, blo, bhi) ==
  IF alo > ahi \/ blo > bhi THEN 0
  ELSE With(find_longest_match(a, b, alo, ahi, blo, bhi),
            LAMBDA m :
              IF m.k = 0 THEN 0
              ELSE m.k + Matches(a, b, alo, m.i - 1, blo, m.j - 1)
                       + Matches(a, b, m.i + m.k, ahi, m.j + m.k, bhi))

\* similarity_score: SequenceMatcher(None, a.lower(), b.lower()).ratio(), as
\* the fraction [n, d] = 2 * matches / (len(a) + len(b)), 1 for two empty
\* strings
similarity_score(a, b) ==
  IF Len(a) + Len(b) = 0 THEN [n |-> 1, d |-> 1]
  ELSE With(<<LowerStr(a), LowerStr(b)>>,
            LAMBDA ab : [n |-> 2 * Matches(ab[1], ab[2], 1, Len(ab[1]), 1, Len(ab[2])),
                         d |-> Len(ab[1]) + Len(ab[2])])

\* fractions: whole + f * times, and their order
Frac(whole, f, times) == [n |-> whole * f.d + f.n * times, d |-> f.d]
FracLess(x, y) == x.n * y.d < y.n * x.d
FracEq(x, y) == x.n * y.d = y.n * x.d

\* str < str, by code points
RECURSIVE StrLess(_, _)
StrLess(x, y) ==
  IF y = <<>> THEN FALSE
  ELSE IF x = <<>> THEN TRUE
  ELSE IF Head(x) = Head(y) THEN StrLess(Tail(x), Tail(y))
  ELSE CodePoint[Head(x)] < CodePoint[Head(y)]

\* variant: the lowest priority first
ResultBefore_ascending(x, y) ==
  \/ FracLess(x.priority, y.priority)
  \/ FracEq(x.priority, y.priority) /\ StrLess(x.title, y.title)

\* the sort key (-priority, title)
ResultBefore(x, y) ==
  \/ FracLess(y.priority, x.priority)
  \/ FracEq(x.priority, y.priority) /\ StrLess(x.title, y.title)

\* list.sort is stable: r goes after the results whose key is not greater
InsertResult(sorted, r) ==
  With(Cardinality({i \in 1..Len(sorted) : ~ResultBefore(r, sorted[i])}),
       LAMBDA k : SubSeq(sorted, 1, k) \o <<r>> \o SubSeq(sorted, k + 1, Len(sorted)))

RECURSIVE SortResults(_)
SortResults(rs) ==
  IF rs = <<>> THEN <<>>
  ELSE With(SortResults(SubSeq(rs, 1, Len(rs) - 1)),
            LAMBDA sorted : InsertResult(sorted, rs[Len(rs)]))

\* variant: every scored candidate is kept
Keep_all(priority, contains, starts_with) == TRUE

\* `if priority > 20 or contains or starts_with`
Keep(priority, contains, starts_with) ==
  FracLess([n |-> 20, d |-> 1], priority) \/ contains \/ starts_with

\* variant: a title that starts with the query scores like one that
\* contains it
Classified_flat(anime, title, exact_match, starts_with, contains, similarity) ==
  With(IF exact_match THEN [n |-> 100, d |-> 1]
       ELSE IF starts_with \/ contains THEN Frac(60, similarity, 10)
       ELSE Frac(0, similarity, 50),
       LAMBDA priority :
         IF Keep(priority, contains, starts_with)
         THEN Some([id |-> Get(anime, "id", None), title |-> title,
                    titled |-> "title" \in DOMAIN anime,
                    priority |-> priority,
                    match_type |-> IF exact_match THEN "exact"
                                   ELSE IF starts_with THEN "starts_with"
                                   ELSE IF contains THEN "contains" ELSE "similar"])
         ELSE Nothing)

\* the candidate flexible_search builds for one index record, Nothing when
\* the record is not kept
Classified(anime, title, exact_match, starts_with, contains, similarity) ==
  With(IF exact_match THEN [n |-> 100, d |-> 1]
       ELSE IF starts_with THEN Frac(80, similarity, 10)
       ELSE IF contains THEN Frac(60, similarity, 10)
       ELSE Frac(0, similarity, 50),
       LAMBDA priority :
         IF Keep(priority, contains, starts_with)
         THEN Some([id |-> Get(anime, "id", None), title |-> title,
                    titled |-> "title" \in DOMAIN anime,
                    priority |-> priority,
                    match_type |-> IF exact_match THEN "exact"
                                   ELSE IF starts_with THEN "starts_with"
                                   ELSE IF contains THEN "contains" ELSE "similar"])
         ELSE Nothing)

Candidate(anime, query, normalized_query) ==
  With(Get(anime, "title", <<>>),
       LAMBDA title :
         With(normalize_text(title),
              LAMBDA normalized_title :
                With(similarity_score(query, title),
                     LAMBDA similarity :
                       Classified(anime, title,
                                  normalized_query = normalized_title,
                                  StartsWith(normalized_title, normalized_query),
                                  IsSubstring(normalized_query, normalized_title),
                                  similarity))))

\* flexible_search: [raised, results]; sorting raises KeyError when a kept
\* record has no title
flexible_search(all, query, limit) ==
  IF query = <<>> \/ all = <<>> THEN [raised |-> FALSE, results |-> <<>>]
  ELSE With(normalize_text(query),
         LAMBDA normalized_query :
           With(Flatten([i \in 1..Len(all) |-> Candidate(all[i], query, normalized_query)]),
             LAMBDA results :
               IF \E i \in 1..Len(results) : ~results[i].titled
               THEN [raised |-> TRUE, results |-> <<>>]
               ELSE With(SortResults(results),
                      LAMBDA sorted :
                        [raised |-> FALSE,
                         results |-> SubSeq(sorted, 1, IF Len(sorted) < limit
                                                       THEN Len(sorted) ELSE limit)])))

\* AnimePaheBackend.search_anime
search_anime(all, search_term) ==
  IF Strip(search_term) = <<>> THEN [raised |-> FALSE, results |-> <<>>]
  ELSE flexible_search(all, search_term, SEARCH_LIMIT)

(* ------------------ AnimePaheBackend: indexed episodes ----------------- *)
EPISODES_PER_PAGE == 50

EPISODE == <<"E", "p", "i", "s", "o", "d", "e">>

\* clean_episode_title, for titles that hold none of the patterns it
\* removes: an empty, all-digit or one-character title becomes "Episode"
clean_episode_title(title) ==
  IF title = <<>> \/ Len(title) < 2
     \/ \A i \in 1..Len(title) : title[i] \in {"0", "1", "2", "3", "4", "5", "6", "7", "8", "9"}
  THEN EPISODE ELSE title

\* int(x): fine on ints and numeric strings, ValueError on other strings,
\* TypeError on None
IntRaises(n) == IF n.k \in {"int", "numstr"} THEN "no"
                ELSE IF n.k = "str" THEN "ValueError" ELSE "TypeError"

\* the first error the sort key meets, in the order of the list
FirstKeyError(eps) ==
  With(FirstIndex({j \in 1..Len(eps) : IntRaises(eps[j].number) # "no"}, 1, Len(eps)),
       LAMBDA j : IF j = 0 THEN "no" ELSE IntRaises(eps[j].number))

\* variant: a page that ends on the last episode still announces a next page
Paginate_inclusive(title, episodes, page) ==
  [title |-> title,
   episodes |-> SubSeq(episodes, (page - 1) * EPISODES_PER_PAGE + 1,
                       IF page * EPISODES_PER_PAGE < Len(episodes)
                       THEN page * EPISODES_PER_PAGE ELSE Len(episodes)),
   total_episodes |-> Len(episodes),
   has_next_page |-> page * EPISODES_PER_PAGE <= Len(episodes),
   current_page |-> page,
   next_page |-> IF page * EPISODES_PER_PAGE <= Len(episodes) THEN page + 1
                 ELSE NonePage]

\* one page of a list and what follows it
Paginate(title, episodes, page) ==
  [title |-> title,
   episodes |-> SubSeq(episodes, (page - 1) * EPISODES_PER_PAGE + 1,
                       IF page * EPISODES_PER_PAGE < Len(episodes)
                       THEN page * EPISODES_PER_PAGE ELSE Len(episodes)),
   total_episodes |-> Len(episodes),
   has_next_page |-> page * EPISODES_PER_PAGE < Len(episodes),
   current_page |-> page,
   next_page |-> IF page * EPISODES_PER_PAGE < Len(episodes) THEN page + 1
                 ELSE NonePage]

\* the list get_episodes builds from the index record's episodes
Formatted(eps) ==
  [i \in 1..Len(eps) |->
     [number |-> eps[i].number,
      title |-> clean_episode_title(Get(eps[i], "title", <<>>)),
      url |-> Get(eps[i], "url", None),
      session |-> eps[i].episode_id]]

\* get_episodes: [raised, ret]; a ValueError of the sort is caught and the
\* list stays as stored, a TypeError is not
get_episodes(all, anime_id, page) ==
  With(get_anime_by_id(all, anime_id),
    LAMBDA anime_data :
      IF anime_data = Nothing
      THEN [raised |-> FALSE,
            ret |-> [title |-> "Unknown Anime", episodes |-> <<>>, total_episodes |-> 0,
                     has_next_page |-> FALSE, current_page |-> page,
                     next_page |-> NonePage]]
      ELSE With(Formatted(Get(anime_data[1], "episodes", <<>>)),
             LAMBDA all_formatted_episodes :
               With(FirstKeyError(all_formatted_episodes),
                 LAMBDA err :
                   IF err = "TypeError" THEN [raised |-> TRUE, ret |-> EmptyMap]
                   ELSE With(IF err = "no" THEN StableSort(all_formatted_episodes)
                             ELSE all_formatted_episodes,
                          LAMBDA sorted :
                            [raised |-> FALSE,
                             ret |-> Paginate(Get(anime_data[1], "title", "Unknown Title"),
                                              sorted, page)]))))

(* -------------------- AnimePaheBackend: iframe URL --------------------- *)
(* A loaded episode page is a record: setup says which of the calls made   *)
(* before the try block raises, nav what navigation does, title the page   *)
(* title, and direct/js/dynamic/interact what each extraction strategy     *)
(* meets on the page: None, a URL, or Raise for a browser error.           *)

U1 == "u_direct"
U2 == "u_js"
U3 == "u_dynamic"
U4 == "u_interact"

\* strategy 1: no handler of its own, a browser error propagates
find_iframe_directly(pg) == pg.direct
\* strategy 2: its own try/except turns an error into None
find_iframe_in_javascript(pg) == IF pg.js = Raise THEN None ELSE pg.js
\* strategy 3: no handler of its own
find_dynamic_iframe(pg) == pg.dynamic
\* strategy 4: every query and click is inside a try/except
find_iframe_after_interaction(pg) == IF pg.interact = Raise THEN None ELSE pg.interact

\* The strategies in call order; the chain stops at the first URL or error.
Strategy(k, pg) ==
  CASE k = 1 -> find_iframe_directly(pg)
    [] k = 2 -> find_iframe_in_javascript(pg)
    [] k = 3 -> find_dynamic_iframe(pg)
    [] OTHER -> find_iframe_after_interaction(pg)

\* variant: every strategy runs and the last URL found wins
RunChain_exhaustive(k, pg, tried) ==
  [url |-> IF Strategy(4, pg) # None THEN Strategy(4, pg)
           ELSE IF Strategy(3, pg) # None THEN Strategy(3, pg)
           ELSE IF Strategy(2, pg) # None THEN Strategy(2, pg)
           ELSE Strategy(1, pg),
   tried |-> <<1, 2, 3, 4>>]

RECURSIVE RunChain(_, _, _)
RunChain(k, pg, tried) ==
  IF k > 4 THEN [url |-> None, tried |-> tried]
  ELSE LET r == Strategy(k, pg)
       IN  IF r = None THEN RunChain(k + 1, pg, Append(tried, k))
           ELSE [url |-> r, tried |-> Append(tried, k)]

\* variant: the title is not looked at
is_not_found_never(title) == FALSE

\* '404' in actual_title or 'Not Found' in actual_title
is_not_found(title) == title \in {"404", "Not Found"}

ERR_404 == "Episode page not found (404)"
ERR_NONE == "No iframe found on page"
ERR_EXC == "str(e)"

\* What a resolution call reports: the stores after it, its return value,
\* whether it raised, the browsing contexts it opened and left open, whether
\* it went on to the live scrape, the strategies it ran and the
\* CacheManager methods it called, in order.
\* variant: any stored entry is a hit
iframe_cache_hit_any(cached_iframe) == cached_iframe # Nothing

\* variant: the stored entry is never used
iframe_cache_hit_never(cached_iframe) == FALSE

\* if cached_iframe and cached_iframe['success']
iframe_cache_hit(cached_iframe) ==
  cached_iframe # Nothing /\ Truthy(cached_iframe[1]) /\ cached_iframe[1].success

scrape_episode_iframe(st, anime_id, episode_session, pg, t) ==
  LET cached_iframe == get_episode_iframe(st, anime_id, episode_session)
      base == [st |-> st, ret |-> [iframe_url |-> None, success |-> FALSE],
               raised |-> FALSE, opened |-> 0, leaked |-> 0, scraped |-> TRUE,
               strategies |-> <<>>, cacheCalls |-> <<"get_episode_iframe">>,
               cached |-> cached_iframe]
      store(data, tried) ==
        [base EXCEPT !.st = set_episode_iframe(st, anime_id, episode_session, data, t),
                     !.ret = data, !.opened = 1, !.strategies = tried,
                     !.cacheCalls = <<"get_episode_iframe", "set_episode_iframe">>]
      fail(reason, tried) ==
        store([iframe_url |-> None, success |-> FALSE, error |-> reason], tried)
  IN  IF iframe_cache_hit(cached_iframe)
      THEN [base EXCEPT !.ret = [iframe_url |-> cached_iframe[1].iframe_url,
                                 success |-> TRUE],
                        !.scraped = FALSE]
      ELSE IF pg.setup = "new_context"
      THEN [base EXCEPT !.raised = TRUE]
      ELSE IF pg.setup # "ok"
      THEN [base EXCEPT !.raised = TRUE, !.opened = 1, !.leaked = 1]
      ELSE IF pg.nav # "ok"
      THEN fail(ERR_EXC, <<>>)
      ELSE IF is_not_found(pg.title)
      THEN fail(ERR_404, <<>>)
      ELSE LET c == RunChain(1, pg, <<>>)
           IN  IF c.url = Raise THEN fail(ERR_EXC, c.tried)
               ELSE IF c.url # None
               THEN store([iframe_url |-> c.url, success |-> TRUE], c.tried)
               ELSE fail(ERR_NONE, c.tried)

\* variant: the indexed URL is never used
index_hit_never(episode_data) == FALSE

\* if episode_data and episode_data.get('iframe_url')
index_hit(episode_data) ==
  episode_data # Nothing /\ Get(episode_data[1], "iframe_url", None) \notin {None, ""}

\* index first; only without an indexed iframe_url fall back to the scraper
backend_get_episode_iframe(all, st, anime_id, episode_session, pg, t) ==
  LET episode_data == get_episode(all, anime_id, episode_session)
  IN  IF index_hit(episode_data)
      THEN [st |-> st,
            ret |-> [iframe_url |-> episode_data[1].iframe_url, success |-> TRUE],
            raised |-> FALSE, opened |-> 0, leaked |-> 0, scraped |-> FALSE,
            strategies |-> <<>>, cacheCalls |-> <<>>, cached |-> Nothing]
      ELSE scrape_episode_iframe(st, anime_id, episode_session, pg, t)


(* ------------------- AnimePaheBackend: episode list -------------------- *)
(* A loaded title page: setup and nav as for an episode page; rows, links  *)
(* and containers are the elements matched by the three extraction         *)
(* methods, each element [ok, number, session] (ok is FALSE when the       *)
(* element yields no episode record); extract says whether a query raises; *)
(* next_control and labels are what the pagination check finds.            *)

\* use the first method whose selector matches anything; an error gives []
RECURSIVE Records(_)
\* the episode records of the elements that yield one, in element order
Records(els) ==
  IF els = <<>> THEN <<>>
  ELSE IF Head(els).ok
       THEN <<[number |-> Head(els).number, session |-> Head(els).session]>>
            \o Records(Tail(els))
       ELSE Records(Tail(els))

extract_episodes_clean(epg) ==
  IF epg.extract = Raise THEN <<>>
  ELSE IF epg.rows # <<>> THEN Records(epg.rows)
  ELSE IF epg.links # <<>> THEN Records(epg.links)
  ELSE IF epg.containers # <<>> THEN Records(epg.containers)
  ELSE <<>>

\* variant: the first numbered link counts, greater than the page or not
check_pagination_first_label(epg, current_page) ==
  IF epg.next_control THEN [has_next_page |-> TRUE, next_page |-> current_page + 1]
  ELSE IF epg.labels # <<>> THEN [has_next_page |-> TRUE, next_page |-> epg.labels[1]]
  ELSE [has_next_page |-> FALSE, next_page |-> NonePage]

check_pagination(epg, current_page) ==
  LET bigger == {j \in 1..Len(epg.labels) : epg.labels[j] > current_page}
      h == FirstIndex(bigger, 1, Len(epg.labels))
  IN  IF epg.next_control THEN [has_next_page |-> TRUE, next_page |-> current_page + 1]
      ELSE IF h # 0 THEN [has_next_page |-> TRUE, next_page |-> epg.labels[h]]
      ELSE [has_next_page |-> FALSE, next_page |-> NonePage]

\* the elements of seq at the positions in keep, in order
RECURSIVE Pick(_, _, _)
Pick(seq, keep, i) ==
  IF i > Len(seq) THEN <<>>
  ELSE IF i \in keep THEN <<seq[i]>> \o Pick(seq, keep, i + 1)
  ELSE Pick(seq, keep, i + 1)

\* variant: the last episode of a session is the one kept
remove_duplicate_episodes_last(episodes) ==
  Pick(episodes,
       {i \in 1..Len(episodes) :
          /\ episodes[i].session # ""
          /\ \A j \in (i + 1)..Len(episodes) : episodes[j].session # episodes[i].session},
       1)

RECURSIVE remove_duplicate_episodes(_)
\* keep an episode when its session is non-empty and not seen before
remove_duplicate_episodes(episodes) ==
  IF episodes = <<>> THEN <<>>
  ELSE With(remove_duplicate_episodes(SubSeq(episodes, 1, Len(episodes) - 1)),
         LAMBDA unique_episodes :
           IF /\ episodes[Len(episodes)].session # ""
              /\ \A j \in 1..Len(unique_episodes) :
                   unique_episodes[j].session # episodes[Len(episodes)].session
           THEN Append(unique_episodes, episodes[Len(episodes)])
           ELSE unique_episodes)

RECURSIVE InsertByNumber(_, _)
InsertByNumber(sorted, e) ==
  IF sorted = <<>> THEN <<e>>
  ELSE IF Head(sorted).number <= e.number
       THEN <<Head(sorted)>> \o InsertByNumber(Tail(sorted), e)
       ELSE <<e>> \o sorted

RECURSIVE SortByNumber(_)
\* list.sort(key=int(number)): stable
SortByNumber(eps) ==
  IF eps = <<>> THEN <<>>
  ELSE InsertByNumber(SortByNumber(SubSeq(eps, 1, Len(eps) - 1)), eps[Len(eps)])

ErrorPage(page) ==
  [title |-> "Unknown", episodes |-> <<>>, total_episodes |-> 0,
   has_next_page |-> FALSE, current_page |-> page, next_page |-> NonePage]

\* variant: every page goes through the episode-list cache
first_page_any(page) == TRUE

\* the episode-list cache is read and written for the first page only
first_page(page) == page = 1

scrape_episodes_page(st, anime_id, page, epg, t) ==
  LET g == IF first_page(page) THEN get_anime_episodes(st, anime_id)
           ELSE [st |-> st, ret |-> Nothing]
      reads == IF first_page(page) THEN <<"get_anime_episodes">> ELSE <<>>
      base == [st |-> g.st, ret |-> ErrorPage(page), raised |-> FALSE, opened |-> 0,
               leaked |-> 0, scraped |-> TRUE, strategies |-> <<>>,
               cacheCalls |-> reads, cached |-> g.ret]
  IN  IF g.ret # Nothing
      THEN LET c == g.ret[1]
           IN  [base EXCEPT !.scraped = FALSE,
                            !.ret = [title |-> c.title,
                                     episodes |-> c.episodes,
                                     total_episodes |-> Get(c, "total_episodes", 0),
                                     has_next_page |-> Get(c, "has_next_page", FALSE),
                                     current_page |-> Get(c, "current_page", 1),
                                     next_page |-> Get(c, "next_page", NonePage)]]
      ELSE IF epg.setup = "new_context"
      THEN [base EXCEPT !.raised = TRUE]
      ELSE IF epg.setup # "ok"
      THEN [base EXCEPT !.raised = TRUE, !.opened = 1, !.leaked = 1]
      ELSE IF epg.nav # "ok"
      THEN [base EXCEPT !.opened = 1]
      ELSE LET pag == check_pagination(epg, page)
               episodes == SortByNumber(remove_duplicate_episodes(
                                          extract_episodes_clean(epg)))
               anime_data == [title |-> epg.title,
                              episodes |-> episodes,
                              total_episodes |-> Len(episodes),
                              has_next_page |-> pag.has_next_page,
                              current_page |-> page,
                              next_page |-> pag.next_page]
           IN  IF first_page(page)
               THEN [base EXCEPT !.st = set_anime_episodes(g.st, anime_id, anime_data, t),
                                 !.ret = anime_data, !.opened = 1,
                                 !.cacheCalls = Append(reads, "set_anime_episodes")]
               ELSE [base EXCEPT !.ret = anime_data, !.opened = 1]

(* --------------------- AnimePaheBackend: listings ---------------------- *)
popular_ongoing ==
  <<<<"O", "n", "e", " ", "P", "i", "e", "c", "e">>,
    <<"N", "a", "r", "u", "t", "o">>,
    <<"B", "o", "r", "u", "t", "o">>,
    <<"M", "y", " ", "H", "e", "r", "o", " ", "A", "c", "a", "d", "e", "m", "i", "a">>,
    <<"A", "t", "t", "a", "c", "k", " ", "o", "n", " ", "T", "i", "t", "a", "n">>,
    <<"D", "e", "m", "o", "n", " ", "S", "l", "a", "y", "e", "r">>,
    <<"J", "u", "j", "u", "t", "s", "u", " ", "K", "a", "i", "s", "e", "n">>,
    <<"C", "h", "a", "i", "n", "s", "a", "w", " ", "M", "a", "n">>,
    <<"S", "p", "y", " ", "x", " ", "F", "a", "m", "i", "l", "y">>,
    <<"B", "l", "u", "e", " ", "L", "o", "c", "k">>,
    <<"D", "r", ".", " ", "S", "t", "o", "n", "e">>,
    <<"T", "h", "a", "t", " ", "T", "i", "m", "e", " ", "I", " ", "G", "o", "t", " ", "R", "e", "i", "n", "c", "a", "r", "n", "a", "t", "e", "d", " ", "a", "s", " ", "a", " ", "S", "l", "i", "m", "e">>,
    <<"O", "n", "e", " ", "P", "u", "n", "c", "h", " ", "M", "a", "n">>,
    <<"T", "o", "k", "y", "o", " ", "R", "e", "v", "e", "n", "g", "e", "r", "s">>,
    <<"H", "a", "i", "k", "y", "u", "u">>,
    <<"B", "l", "a", "c", "k", " ", "C", "l", "o", "v", "e", "r">>>>

\* anime_name.lower() in anime.get('title', '').lower()
TitleContains(name, title) == IsSubstring(LowerStr(name), LowerStr(title))

RECURSIVE FallbackFrom(_, _)
FallbackFrom(names, all) ==
  IF names = <<>> THEN <<>>
  ELSE LET n == Head(names)
           i == FirstIndex({j \in 1..Len(all) :
                              TitleContains(n, Get(all[j], "title", <<>>))}, 1, Len(all))
           rest == FallbackFrom(Tail(names), all)
       IN  IF i = 0 THEN rest
           ELSE <<[anime_name |-> n, episode_number |-> 1,
                   anime_id |-> Get(all[i], "id", ""),
                   session_id |-> "fallback123"]>> \o rest

get_fallback_episodes(all) == FallbackFrom(SubSeq(popular_ongoing, 1, 10), all)

\* a listing item as scraped from the home page, reduced to its title
Item(title) == [title |-> title]

get_fallback_popular_anime ==
  <<Item("One Piece"), Item("Naruto"), Item("Dan Da Dan"), Item("Kaiju No. 8"),
    Item("Jujutsu Kaisen"), Item("Chainsaw Man"), Item("Attack on Titan"),
    Item("Demon Slayer"), Item("My Hero Academia"), Item("Spy x Family"),
    Item("Blue Lock"), Item("Dr. Stone")>>

\* A home page load is [setup, found, fails]: found is what the scrape
\* collected, fails whether it ended in an exception.
backend_get_currently_airing_episodes(all, st, lpg, t) ==
  LET cached_episodes == get_currently_airing_episodes(st, t)
      base == [st |-> st, ret |-> <<>>, raised |-> FALSE, opened |-> 0, leaked |-> 0,
               scraped |-> TRUE, strategies |-> <<>>,
               cacheCalls |-> <<"get_currently_airing_episodes">>,
               cached |-> cached_episodes]
  IN  IF cached_episodes # Nothing
      THEN [base EXCEPT !.ret = cached_episodes[1], !.scraped = FALSE]
      ELSE IF lpg.setup = "new_context"
      THEN [base EXCEPT !.raised = TRUE]
      ELSE IF lpg.setup # "ok"
      THEN [base EXCEPT !.raised = TRUE, !.opened = 1, !.leaked = 1]
      ELSE LET all_episodes == IF lpg.found = <<>> THEN get_fallback_episodes(all)
                               ELSE lpg.found
           IN  [base EXCEPT !.st = set_currently_airing_episodes(st, all_episodes, t),
                            !.ret = all_episodes, !.opened = 1,
                            !.cacheCalls = <<"get_currently_airing_episodes",
                                             "set_currently_airing_episodes">>]

backend_get_popular_anime(st, lpg, t) ==
  LET cached_popular == get_popular_anime(st, t)
      base == [st |-> st, ret |-> <<>>, raised |-> FALSE, opened |-> 0, leaked |-> 0,
               scraped |-> TRUE, strategies |-> <<>>,
               cacheCalls |-> <<"get_popular_anime">>,
               cached |-> cached_popular]
  IN  IF cached_popular # Nothing
      THEN [base EXCEPT !.ret = cached_popular[1], !.scraped = FALSE]
      ELSE IF lpg.setup = "new_context"
      THEN [base EXCEPT !.raised = TRUE]
      ELSE IF lpg.setup # "ok"
      THEN [base EXCEPT !.raised = TRUE, !.opened = 1, !.leaked = 1]
      ELSE LET popular_anime == IF lpg.fails \/ lpg.found = <<>>
                                THEN get_fallback_popular_anime ELSE lpg.found
           IN  [base EXCEPT !.st = set_popular_anime(st, popular_anime, t),
                            !.ret = popular_anime, !.opened = 1,
                            !.cacheCalls = <<"get_popular_anime", "set_popular_anime">>]


(* ------------------------------ inputs --------------------------------- *)
Ep(n, sid, url) == [number |-> Num(n), episode_id |-> sid, iframe_url |-> url]

\* the index as loaded: a1 with its episodes out of order, s1 carrying a
\* recorded iframe URL and s2 none; a2 without an episode list
Catalog ==
  <<[id |-> "a1", title |-> <<"B", "l", "e", "a", "c", "h">>,
     episodes |-> <<Ep(2, "s2", None), Ep(1, "s1", "u_index")>>],
    [id |-> "a2", title |-> <<"N", "a", "r", "u", "t", "o">>]>>

\* indexes to search in: distinct titles, titles that differ by case or
\* are equal, titles outside ASCII, an entry without a title, no entry
Entry(id, title) == [id |-> id, title |-> title]

SearchCatalogs ==
  {<<Entry("x1", <<"n", "a">>), Entry("x2", <<"n", "a", "b">>),
     Entry("x3", <<"b", " ", "n", "a">>), Entry("x4", <<"a", "b">>)>>,
   <<Entry("x1", <<"n", "a">>), Entry("x2", <<"N", "a">>)>>,
   <<Entry("x1", <<"n", "a">>), Entry("x2", <<"n", "a">>)>>,
   <<Entry("x1", <<"cjk1">>), Entry("x2", <<"cjk2">>)>>,
   <<Entry("x1", <<"n", "a_acute">>), [id |-> "x2"]>>,
   <<>>}

ExtraQueries == {<<>>, <<" ">>, <<"z">>, <<"n">>, <<" ", "N", "A", " ">>, <<"cjk1">>}

\* the limit argument of flexible_search
SearchLimits == {1, 2, SEARCH_LIMIT}

Queries(all) ==
  {all[i].title : i \in {j \in 1..Len(all) : "title" \in DOMAIN all[j]}} \cup ExtraQueries

\* indexes to page through and to step in.  A title of n episodes stores
\* them last first, episode k under the id "s" k.
LongTitle(n) ==
  <<[id |-> "a1", title |-> <<"T">>,
     episodes |-> [i \in 1..n |-> Ep(n + 1 - i, "s" \o ToString(n + 1 - i), None)]]>>

EpisodeCounts == {0, 1, EPISODES_PER_PAGE, EPISODES_PER_PAGE + 1, MaxEpisodes}

EpK(kind, n, sid) ==
  [number |-> [k |-> kind, v |-> n], episode_id |-> sid, iframe_url |-> None]

\* numbers that repeat, some of them numeric strings; a number that is
\* another string; a number that is None; an episode id that repeats; a
\* record without an episode list
ShortTitles ==
  {<<[id |-> "a1", title |-> <<"T">>,
      episodes |-> <<EpK("int", 2, "s2"), EpK("int", 1, "s1"),
                     EpK("numstr", 2, "s3"), EpK("numstr", 1, "s4")>>]>>,
   <<[id |-> "a1", title |-> <<"T">>,
      episodes |-> <<EpK("int", 2, "s2"), EpK("str", 0, "s1"), EpK("int", 1, "s3")>>]>>,
   <<[id |-> "a1", title |-> <<"T">>,
      episodes |-> <<EpK("int", 2, "s2"), EpK("none", 0, "s1"), EpK("int", 1, "s3")>>]>>,
   <<[id |-> "a1", title |-> <<"T">>,
      episodes |-> <<EpK("int", 3, "s1"), EpK("int", 2, "s2"), EpK("int", 1, "s1")>>]>>,
   <<[id |-> "a1", title |-> <<"T">>]>>}

IndexCatalogs == {LongTitle(n) : n \in EpisodeCounts} \cup ShortTitles

IndexAnime == {"a1", "a3"}
IndexSessions == {"s1", "s2", "s3", "s4", "s" \o ToString(MaxEpisodes), "zz"}

ReqPairs == {<<"a1", "s1">>, <<"a1", "s2">>, <<"a2", "s1">>}

\* cache files another process may write at time t
DocFull(t) ==
  [anime_episodes |-> [a \in {"a1"} |->
      [title |-> "Ext", episodes |-> <<[number |-> 1, session |-> "s1"]>>,
       total_episodes |-> 1, has_next_page |-> FALSE, current_page |-> 1,
       next_page |-> NonePage, timestamp |-> t]],
   episode_iframes |-> [a \in {"a1"} |-> [s \in {"s2"} |->
      [iframe_url |-> "u_ext", timestamp |-> t, success |-> TRUE]]],
   currently_airing_episodes |-> [episodes |-> <<Item("ext_ep")>>, timestamp |-> t, count |-> 1],
   popular_anime |-> [anime |-> <<Item("ext_pop")>>, timestamp |-> t, count |-> 1],
   metadata |-> [created_at |-> t, last_updated |-> t]]

\* an older layout: one top-level key, an entry without the page fields
DocPartial(t) ==
  [anime_episodes |-> [a \in {"a2"} |->
      [title |-> "Old", episodes |-> <<>>, timestamp |-> t]]]

ExternalFiles(t) ==
  {[exists |-> TRUE, parsable |-> TRUE, content |-> DocFull(t), mtime |-> t],
   [exists |-> TRUE, parsable |-> TRUE, content |-> DocPartial(t), mtime |-> t],
   [exists |-> TRUE, parsable |-> FALSE, content |-> EmptyMap, mtime |-> t]}

\* the file found at start: none, or one written long before, holding an
\* episode list in an older layout (no page fields), a failed iframe entry
\* past the startup retention and a success entry
DocStale ==
  [anime_episodes |-> [a \in {"a2"} |->
      [title |-> "Old", episodes |-> <<[number |-> 7, session |-> "s7"]>>,
       total_episodes |-> 1, has_next_page |-> TRUE, timestamp |-> 0]],
   episode_iframes |-> [a \in {"a1", "a2"} |->
      IF a = "a1"
      THEN [s \in {"s2"} |-> [iframe_url |-> None, timestamp |-> 0 - 200,
                              success |-> FALSE]]
      ELSE [s \in {"s1"} |-> [iframe_url |-> "u_old", timestamp |-> 0,
                              success |-> TRUE]]],
   currently_airing_episodes |-> [episodes |-> <<Item("old_ep")>>, timestamp |-> 0 - 200, count |-> 1],
   popular_anime |-> [anime |-> <<Item("old_pop")>>, timestamp |-> 0, count |-> 1],
   metadata |-> [created_at |-> 0 - 200, last_updated |-> 0]]

InitialFiles ==
  {NoFile, [exists |-> TRUE, parsable |-> TRUE, content |-> DocStale, mtime |-> 1]}

Found(k) == {j \in 1..4 : j >= k}

\* Episode pages: one where no strategy finds anything; for each strategy k
\* one where only k finds its URL and one where k and every later strategy
\* do; for each k one where k meets a browser error and the last strategy
\* would find a URL; pages whose setup or navigation fails; a 404 page.
PageOf(setup, nav, title, finds, raises) ==
  [setup |-> setup, nav |-> nav, title |-> title,
   direct |-> IF 1 \in raises THEN Raise ELSE IF 1 \in finds THEN U1 ELSE None,
   js |-> IF 2 \in raises THEN Raise ELSE IF 2 \in finds THEN U2 ELSE None,
   dynamic |-> IF 3 \in raises THEN Raise ELSE IF 3 \in finds THEN U3 ELSE None,
   interact |-> IF 4 \in raises THEN Raise ELSE IF 4 \in finds THEN U4 ELSE None]

EpisodePages ==
  {PageOf("ok", "ok", "ok", {}, {})}
  \cup {PageOf("ok", "ok", "ok", {k}, {}) : k \in 1..4}
  \cup {PageOf("ok", "ok", "ok", Found(k), {}) : k \in 1..3}
  \cup {PageOf("ok", "ok", "ok", {4}, {k}) : k \in 1..4}
  \cup {PageOf(f, "ok", "ok", {}, {}) : f \in {"new_context", "add_init_script", "new_page"}}
  \cup {PageOf("ok", f, "ok", {}, {}) : f \in {"goto_raises", "ddos_timeout"}}
  \cup {PageOf("ok", "ok", "404", {1}, {})}

\* pages for the scraper called directly: the same, and a page titled
\* Not Found on which every strategy would find a URL
ChainPairs == {<<"a1", "s2">>, <<"a2", "s1">>}

ChainPages == EpisodePages \cup {PageOf("ok", "ok", "Not Found", Found(1), {})}

El(n, sid) == [ok |-> TRUE, number |-> n, session |-> sid]
NoEl == [ok |-> FALSE, number |-> 0, session |-> ""]

TitlePageOf(setup, nav, extract, rows, links, containers, next_control, labels) ==
  [setup |-> setup, nav |-> nav, extract |-> extract, title |-> "T",
   rows |-> rows, links |-> links, containers |-> containers,
   next_control |-> next_control, labels |-> labels]

\* Title pages: a table with a repeated session, out of order, and a next
\* control; links that yield no record beside a container that would, with
\* numbered pagination links; a page with no episode at all; a page whose
\* element query raises; pages that fail to open or load.
TitlePages ==
  {TitlePageOf("ok", "ok", "ok", <<El(2, "s2"), El(1, "s1"), El(3, "s2")>>,
               <<El(4, "s1")>>, <<>>, TRUE, <<>>),
   TitlePageOf("ok", "ok", "ok", <<>>, <<NoEl>>, <<El(1, "s1")>>, FALSE, <<1, 3>>),
   TitlePageOf("ok", "ok", "ok", <<>>, <<>>, <<>>, FALSE, <<>>),
   TitlePageOf("ok", "ok", Raise, <<El(1, "s1")>>, <<>>, <<>>, FALSE, <<>>),
   TitlePageOf("new_page", "ok", "ok", <<>>, <<>>, <<>>, FALSE, <<>>),
   TitlePageOf("ok", "goto_raises", "ok", <<>>, <<>>, <<>>, FALSE, <<>>)}

PageNumbers == {1, 2}

\* what one selector of extract_episodes_clean matches: nothing, one element
\* that yields no record, or an element that yields one after one that
\* does not
Matched1(sid) == {<<>>, <<NoEl>>, <<NoEl, El(1, sid)>>}

\* pages for extract_episodes_clean: each method's selector on its own
ExtractPages ==
  {TitlePageOf("ok", "ok", x, rows, links, containers, FALSE, <<>>) :
     x \in {"ok", Raise}, rows \in Matched1("s1"), links \in Matched1("s2"),
     containers \in Matched1("s3")}

\* scraped episode records: two of one session, one of another, one whose
\* element had no session
ScrapedRecords ==
  {[number |-> 1, session |-> "s1"], [number |-> 2, session |-> "s1"],
   [number |-> 1, session |-> "s2"], [number |-> 3, session |-> ""]}

ScrapedLists == UNION {[1..n -> ScrapedRecords] : n \in 0..MaxScraped}

\* Home pages: a scrape that finds entries, one that finds none, one that
\* finds entries and then fails, and one whose page cannot be opened.
HomePages ==
  {[setup |-> "ok", found |-> <<Item("live")>>, fails |-> FALSE],
   [setup |-> "ok", found |-> <<>>, fails |-> FALSE],
   [setup |-> "ok", found |-> <<Item("live")>>, fails |-> TRUE],
   [setup |-> "new_page", found |-> <<>>, fails |-> FALSE]}

(* ------------------------------ actions -------------------------------- *)
Call(op, a, s, p, out, ran) ==
  [op |-> op, anime |-> a, session |-> s, page |-> p, ran |-> ran,
   ret |-> out.ret, raised |-> out.raised, opened |-> out.opened,
   leaked |-> out.leaked, scraped |-> out.scraped, strategies |-> out.strategies,
   cacheCalls |-> out.cacheCalls, cached |-> out.cached]

Idle(st, ret) ==
  [st |-> st, ret |-> ret, raised |-> FALSE, opened |-> 0, leaked |-> 0,
   scraped |-> FALSE, strategies |-> <<>>, cacheCalls |-> <<>>, cached |-> Nothing]

\* what one listing resolution did, as recorded in lastCall.ret
Part(o) == [items |-> IF o.raised THEN <<>> ELSE o.ret, raised |-> o.raised,
            scraped |-> o.scraped, opened |-> o.opened,
            ran |-> o.cacheCalls # <<>>]

SetStore(st) ==
  /\ cache' = st.cache
  /\ last_mtime' = st.last_mtime
  /\ file' = st.file
  /\ disk' = st.disk

\* variant: no route looks at backend.ready
NotReady_never(r) == FALSE

\* `if not backend.ready` at the top of a route
NotReady(r) == ~r

\* run_async_in_thread raises "Backend not ready" instead of submitting
LoopRefuses(r) == ~r

\* what a route shows when the call behind it raised
Refused(st, ret) == [Idle(st, ret) EXCEPT !.raised = TRUE]

\* CacheManager() and AnimeIndex() as constructed at import
Init ==
  /\ now = TickHours
  /\ all_anime = Catalog
  /\ disk = "ok"
  /\ \E f \in InitialFiles :
       LET st == load_cache([cache |-> get_default_cache(now), last_mtime |-> 0,
                             file |-> f, disk |-> "ok"], now)
       IN  cache = st.cache /\ last_mtime = st.last_mtime /\ file = st.file
  /\ ready = FALSE
  /\ preload = FALSE
  /\ setup_pc = "start"
  /\ tasks = [t \in TaskIds |-> FreeTask]
  /\ lastCall = Call("init", None, None, NonePage,
                     Idle([cache |-> cache], <<>>), FALSE)

Tick ==
  /\ now + TickHours <= MaxNow
  /\ now' = now + TickHours
  /\ lastCall' = Call("tick", None, None, NonePage, Idle(Store, <<>>), FALSE)
  /\ UNCHANGED <<all_anime, cache, last_mtime, file, disk, ready, preload, setup_pc, tasks>>

\* another process rewrites the cache file
ExternalWrite ==
  /\ \E f \in ExternalFiles(now) : file' = f
  /\ lastCall' = Call("external_write", None, None, NonePage, Idle(Store, <<>>), FALSE)
  /\ UNCHANGED <<all_anime, cache, last_mtime, disk, now, ready, preload, setup_pc, tasks>>

\* the disk starts or stops failing writes
DiskChange ==
  /\ \E d \in WriteOutcomes : d # disk /\ disk' = d
  /\ lastCall' = Call("disk_change", None, None, NonePage, Idle(Store, <<>>), FALSE)
  /\ UNCHANGED <<all_anime, cache, last_mtime, file, now, ready, preload, setup_pc, tasks>>

\* async_setup: the browser starts or not; on success sweep and schedule
\* the preload task
async_setup ==
  /\ setup_pc = "start"
  /\ setup_pc' = "done"
  /\ \E ok \in BOOLEAN :
       IF ok
       THEN LET r == clear_old_cache(Store, STARTUP_SWEEP_DAYS, now)
            IN  /\ SetStore(r.st)
                /\ ready' = TRUE
                /\ preload' = TRUE
                /\ lastCall' = [Call("async_setup", None, None, NonePage,
                                     Idle(r.st, <<r.ret>>), TRUE)
                                  EXCEPT !.cacheCalls = <<"clear_old_cache">>]
       ELSE /\ UNCHANGED <<cache, last_mtime, file, disk, ready, preload, tasks>>
            /\ lastCall' = Call("async_setup", None, None, NonePage,
                                Idle(Store, <<>>), FALSE)
  /\ UNCHANGED <<all_anime, now, tasks>>

\* preload_home_data: both listings in turn; an exception from the first
\* skips the second
preload_home_data ==
  /\ preload
  /\ \E lpgA \in HomePages, lpgP \in HomePages :
       LET a == backend_get_currently_airing_episodes(all_anime, Store, lpgA, now)
           p == IF a.raised THEN Idle(a.st, <<>>)
                ELSE backend_get_popular_anime(a.st, lpgP, now)
       IN  /\ SetStore(p.st)
           /\ lastCall' = [Call("preload_home_data", None, None, NonePage, a, TRUE)
                             EXCEPT !.ret = [stats |-> get_cache_stats(Store),
                                             airing |-> Part(a), popular |-> Part(p)],
                                    !.cached = Nothing,
                                    !.raised = a.raised \/ p.raised,
                                    !.opened = a.opened + p.opened,
                                    !.leaked = a.leaked + p.leaked,
                                    !.scraped = a.scraped \/ p.scraped,
                                    !.cacheCalls = a.cacheCalls \o p.cacheCalls]
  /\ preload' = FALSE
  /\ UNCHANGED <<all_anime, now, ready, setup_pc, tasks>>

\* route /: reconcile when ready, read the stats, then each listing from
\* the cache or, on a miss, from the worker; a worker error shows as []
index ==
  \E lpgA \in HomePages, lpgP \in HomePages :
    LET go == ~NotReady(ready)
        st1 == IF go THEN check_and_reload(Store, now) ELSE Store
        stats == get_cache_stats(st1)
        a == IF ~go THEN Idle(st1, <<>>)
             ELSE IF LoopRefuses(ready) /\ get_currently_airing_episodes(st1, now) = Nothing
             THEN Refused(st1, <<>>)
             ELSE backend_get_currently_airing_episodes(all_anime, st1, lpgA, now)
        p == IF ~go THEN Idle(a.st, <<>>)
             ELSE IF LoopRefuses(ready) /\ get_popular_anime(a.st, now) = Nothing
             THEN Refused(a.st, <<>>)
             ELSE backend_get_popular_anime(a.st, lpgP, now)
    IN  /\ SetStore(p.st)
        /\ lastCall' = [Call("index", None, None, NonePage, a, go)
                          EXCEPT !.ret = [stats |-> stats,
                                          airing |-> Part(a), popular |-> Part(p)],
                                 !.cached = Nothing,
                                 !.raised = FALSE,
                                 !.opened = a.opened + p.opened,
                                 !.leaked = a.leaked + p.leaked,
                                 !.scraped = a.scraped \/ p.scraped,
                                 !.cacheCalls = (IF go THEN <<"check_and_reload">> ELSE <<>>)
                                    \o <<"get_cache_stats">> \o a.cacheCalls \o p.cacheCalls]
        /\ UNCHANGED <<all_anime, now, ready, preload, setup_pc, tasks>>

\* route /watch/<anime_id>/<episode_session>
watch_episode ==
  \E pair \in ReqPairs, pg \in EpisodePages :
    IF NotReady(ready) \/ LoopRefuses(ready)
    THEN /\ lastCall' = Call("watch_episode", pair[1], pair[2], NonePage,
                             IF NotReady(ready)
                             THEN Idle(Store, [iframe_url |-> None, success |-> FALSE])
                             ELSE Refused(Store, [iframe_url |-> None, success |-> FALSE]),
                             ~NotReady(ready))
         /\ UNCHANGED <<all_anime, cache, last_mtime, file, disk, now, ready, preload,
                        setup_pc, tasks>>
    ELSE LET out == backend_get_episode_iframe(all_anime, Store, pair[1], pair[2],
                                               pg, now)
             nxt == get_next_episode(all_anime, pair[1], pair[2])
         IN  /\ SetStore(out.st)
             /\ all_anime' = IF out.raised THEN all_anime ELSE nxt.all
             /\ lastCall' = Call("watch_episode", pair[1], pair[2], NonePage, out, TRUE)
             /\ UNCHANGED <<now, ready, preload, setup_pc, tasks>>

\* route /anime/<anime_id>/live
anime_episodes_scraped ==
  \E a \in AnimeIds, page \in PageNumbers, epg \in TitlePages :
    IF NotReady(ready) \/ LoopRefuses(ready)
    THEN /\ lastCall' = Call("anime_episodes_scraped", a, None, page,
                             IF NotReady(ready) THEN Idle(Store, ErrorPage(page))
                             ELSE Refused(Store, ErrorPage(page)),
                             ~NotReady(ready))
         /\ UNCHANGED <<all_anime, cache, last_mtime, file, disk, now, ready, preload,
                        setup_pc, tasks>>
    ELSE LET out == scrape_episodes_page(Store, a, page, epg, now)
         IN  /\ SetStore(out.st)
             /\ lastCall' = Call("anime_episodes_scraped", a, None, page, out, TRUE)
             /\ UNCHANGED <<all_anime, now, ready, preload, setup_pc, tasks>>

\* route /search (POST): the query is stripped, an empty one goes back to
\* the home page, an exception from the search shows the error page
search ==
  \E q \in Queries(all_anime) :
    \E query \in {Strip(q)} :
        /\ lastCall' =
              IF NotReady(ready) \/ query = <<>>
              THEN Call("search", None, None, NonePage,
                        Idle(Store, [query |-> query, results |-> <<>>]), FALSE)
              ELSE With(search_anime(all_anime, query),
                     LAMBDA r :
                       Call("search", None, None, NonePage,
                            IF r.raised
                            THEN Refused(Store, [query |-> query, results |-> <<>>])
                            ELSE Idle(Store, [query |-> query, results |-> r.results]),
                            TRUE))
        /\ UNCHANGED <<all_anime, cache, last_mtime, file, disk, now, ready, preload,
                       setup_pc, tasks>>

\* AnimeIndex.flexible_search called directly
ai_flexible_search ==
  \E q \in Queries(all_anime), limit \in SearchLimits :
    /\ lastCall' =
          With(flexible_search(all_anime, q, limit),
            LAMBDA r :
              Call("flexible_search", None, None, NonePage,
                   IF r.raised
                   THEN Refused(Store, [query |-> q, limit |-> limit, results |-> <<>>])
                   ELSE Idle(Store, [query |-> q, limit |-> limit, results |-> r.results]),
                   TRUE))
    /\ UNCHANGED <<all_anime, cache, last_mtime, file, disk, now, ready, preload,
                   setup_pc, tasks>>

\* AnimePaheBackend._scrape_episode_iframe called directly; the page met is
\* kept with the result
be_scrape_episode_iframe ==
  \E pair \in ChainPairs, pg \in ChainPages :
    \E out \in {scrape_episode_iframe(Store, pair[1], pair[2], pg, now)} :
      /\ SetStore(out.st)
      /\ lastCall' = [Call("scrape_episode_iframe", pair[1], pair[2], NonePage, out, TRUE)
                        EXCEPT !.ret = [pg |-> pg, data |-> out.ret]]
      /\ UNCHANGED <<all_anime, now, ready, preload, setup_pc, tasks>>

\* AnimePaheBackend.remove_duplicate_episodes called directly
be_remove_duplicate_episodes ==
  \E episodes \in ScrapedLists :
    /\ lastCall' = Call("remove_duplicate_episodes", None, None, NonePage,
                        Idle(Store, [episodes |-> episodes,
                                     unique |-> remove_duplicate_episodes(episodes)]),
                        TRUE)
    /\ UNCHANGED <<all_anime, cache, last_mtime, file, disk, now, ready, preload,
                   setup_pc, tasks>>

\* AnimePaheBackend.extract_episodes_clean called directly
be_extract_episodes_clean ==
  \E epg \in ExtractPages :
    /\ lastCall' = Call("extract_episodes_clean", None, None, NonePage,
                        Idle(Store, [epg |-> epg,
                                     episodes |-> extract_episodes_clean(epg)]),
                        TRUE)
    /\ UNCHANGED <<all_anime, cache, last_mtime, file, disk, now, ready, preload,
                   setup_pc, tasks>>

\* AnimeIndex.get_next_episode called directly
ai_get_next_episode ==
  \E a \in IndexAnime, s \in IndexSessions :
    \E nxt \in {get_next_episode(all_anime, a, s)} :
      /\ all_anime' = nxt.all
      /\ lastCall' = Call("get_next_episode", a, s, NonePage, Idle(Store, nxt.ret), TRUE)
      /\ UNCHANGED <<cache, last_mtime, file, disk, now, ready, preload, setup_pc, tasks>>

\* AnimePaheBackend.get_episodes called directly
be_get_episodes ==
  \E a \in IndexAnime, page \in 1..MaxPage :
    \E r \in {get_episodes(all_anime, a, page)} :
      /\ lastCall' = Call("get_episodes", a, None, page,
                          IF r.raised THEN Refused(Store, r.ret) ELSE Idle(Store, r.ret),
                          TRUE)
      /\ UNCHANGED <<all_anime, cache, last_mtime, file, disk, now, ready, preload,
                     setup_pc, tasks>>

\* route /anime/<anime_id>: the indexed episode list, one page of it
anime_episodes ==
  \E a \in AnimeIds \cup {"a3"}, page \in PageNumbers :
        /\ lastCall' =
              IF NotReady(ready)
              THEN Call("anime_episodes", a, None, page, Idle(Store, EmptyMap), FALSE)
              ELSE With(get_episodes(all_anime, a, page),
                     LAMBDA r :
                       Call("anime_episodes", a, None, page,
                            IF r.raised THEN Refused(Store, r.ret) ELSE Idle(Store, r.ret),
                            TRUE))
        /\ UNCHANGED <<all_anime, cache, last_mtime, file, disk, now, ready, preload,
                       setup_pc, tasks>>

\* route /cache/stats
cache_stats ==
  /\ lastCall' = [Call("cache_stats", None, None, NonePage,
                       Idle(Store, [stats |-> get_cache_stats(Store)]), TRUE)
                    EXCEPT !.cacheCalls = <<"get_cache_stats">>]
  /\ UNCHANGED <<all_anime, cache, last_mtime, file, disk, now, ready, preload,
                 setup_pc, tasks>>

\* variant: the iframe entries survive the clearing
cleared_keeping_iframes(st, t) ==
  save_cache([st EXCEPT !.cache = [get_default_cache(t) EXCEPT
                                     !.episode_iframes = st.cache.episode_iframes]], t)

\* the store after the body of clear_cache: the default cache, saved
cleared(st, t) == save_cache([st EXCEPT !.cache = get_default_cache(t)], t)

\* route /cache/clear
clear_cache ==
  /\ SetStore(cleared(Store, now))
  /\ lastCall' = [Call("clear_cache", None, None, NonePage, Idle(Store, <<>>), TRUE)
                    EXCEPT !.cacheCalls = <<"save_cache">>]
  /\ UNCHANGED <<all_anime, now, ready, preload, setup_pc, tasks>>

(* ------------------- CacheManager called directly ---------------------- *)
\* what callers hand to the setters
AnimeDataIn == {[title |-> "T2", episodes |-> <<[number |-> 1, session |-> "s1"]>>]}
IframeDataIn == {[iframe_url |-> "u_new", success |-> TRUE],
                 [iframe_url |-> None, success |-> FALSE, error |-> ERR_NONE]}
ListIn == {<<Item("new")>>}
SweepDays == {1, STARTUP_SWEEP_DAYS}
DirectPairs == {<<"a1", "s2">>}

\* a CacheManager method called on the store; ret is what it returned
Direct(op, a, s, st, ret) ==
  /\ SetStore(st)
  /\ lastCall' = [Call(op, a, s, NonePage, Idle(st, ret), TRUE)
                    EXCEPT !.cacheCalls = <<op>>]
  /\ UNCHANGED <<all_anime, now, ready, preload, setup_pc, tasks>>

cm_load_cache ==
  Direct("load_cache", None, None, load_cache(Store, now), <<>>)

cm_check_and_reload ==
  Direct("check_and_reload", None, None, check_and_reload(Store, now), <<>>)

cm_set_anime_episodes ==
  \E a \in AnimeIds, d \in AnimeDataIn :
    Direct("set_anime_episodes", a, None, set_anime_episodes(Store, a, d, now), <<d>>)

cm_set_episode_iframe ==
  \E pair \in DirectPairs, d \in IframeDataIn :
    Direct("set_episode_iframe", pair[1], pair[2],
           set_episode_iframe(Store, pair[1], pair[2], d, now), <<d>>)

cm_set_currently_airing_episodes ==
  \E l \in ListIn :
    Direct("set_currently_airing_episodes", None, None,
           set_currently_airing_episodes(Store, l, now), <<l>>)

cm_set_popular_anime ==
  \E l \in ListIn :
    Direct("set_popular_anime", None, None, set_popular_anime(Store, l, now), <<l>>)

cm_clear_old_cache ==
  \E days \in SweepDays :
    LET r == clear_old_cache(Store, days, now)
    IN  Direct("clear_old_cache", None, None, r.st, <<r.ret, days>>)

(* ------------------------ the worker's event loop ---------------------- *)
(* run_async_in_thread hands a coroutine to the loop of the setup thread   *)
(* and blocks the request thread on its result.  The loop runs one         *)
(* coroutine at a time and switches at an await; a step below is the code  *)
(* between two awaits.  save_cache has no await: the loop stays in it, but *)
(* request threads run while the file is open.  A task is                  *)
(* [pc, anime, session, snap]: free, queued (submitted), loading (context  *)
(* open, page.goto awaited), querying (strategies awaited), saving (file   *)
(* opened for writing, snap being dumped).                                 *)
WriteOpen == {t \in TaskIds : tasks[t].pc = "saving"}

Step(op, t, st, ret) ==
  /\ SetStore(st)
  /\ lastCall' = Call(op, tasks[t].anime, tasks[t].session, NonePage, Idle(st, ret), TRUE)
  /\ UNCHANGED <<all_anime, now, ready, preload, setup_pc>>

\* run_async_in_thread(backend.get_episode_iframe(...)): refuse when not
\* ready, else submit
run_async_in_thread ==
  \E pair \in ReqPairs :
    IF LoopRefuses(ready)
    THEN /\ lastCall' = [Call("run_async_in_thread", pair[1], pair[2], NonePage,
                              Idle(Store, <<>>), FALSE) EXCEPT !.raised = TRUE]
         /\ UNCHANGED <<all_anime, cache, last_mtime, file, disk, now, ready, preload,
                        setup_pc, tasks>>
    ELSE /\ \E t \in TaskIds :
              /\ tasks[t].pc = "free"
              /\ \A u \in TaskIds : u < t => tasks[u].pc # "free"
              /\ tasks' = [tasks EXCEPT ![t] = [FreeTask EXCEPT !.pc = "queued",
                                                  !.anime = pair[1],
                                                  !.session = pair[2]]]
         /\ lastCall' = Call("run_async_in_thread", pair[1], pair[2], NonePage,
                             Idle(Store, <<>>), TRUE)
         /\ UNCHANGED <<all_anime, cache, last_mtime, file, disk, now, ready, preload,
                        setup_pc>>

\* the coroutine starts: index check, cache check, then new_context,
\* new_page and page.goto, which is awaited
iframe_task_start ==
  \E t \in TaskIds :
    /\ tasks[t].pc = "queued"
    /\ WriteOpen = {}
    /\ LET a == tasks[t].anime
           s == tasks[t].session
           hit == \/ index_hit(get_episode(all_anime, a, s))
                  \/ iframe_cache_hit(get_episode_iframe(Store, a, s))
       IN  tasks' = [tasks EXCEPT ![t] = IF hit THEN FreeTask
                                         ELSE [@ EXCEPT !.pc = "loading"]]
    /\ Step("iframe_task_start", t, Store, <<>>)

\* page.goto returns; the strategies' element queries are awaited
iframe_task_loaded ==
  \E t \in TaskIds :
    /\ tasks[t].pc = "loading"
    /\ WriteOpen = {}
    /\ tasks' = [tasks EXCEPT ![t].pc = "querying"]
    /\ Step("iframe_task_loaded", t, Store, <<>>)

\* the strategies return; set_episode_iframe stores the entry and
\* save_cache stamps last_updated and opens the file for writing, which
\* empties it
iframe_task_write ==
  \E t \in TaskIds, d \in IframeDataIn :
    /\ tasks[t].pc = "querying"
    /\ WriteOpen = {}
    /\ disk = "ok"
    /\ LET full == set_episode_iframe(Store, tasks[t].anime, tasks[t].session, d, now)
           st   == [Store EXCEPT !.cache = full.cache,
                                 !.file = [exists |-> TRUE, parsable |-> FALSE,
                                           content |-> EmptyMap, mtime |-> now]]
       IN  /\ tasks' = [tasks EXCEPT ![t].pc = "saving", ![t].snap = full.cache]
           /\ Step("iframe_task_write", t, st, <<d>>)

\* json.dump ends, the file is closed, its modification time is recorded,
\* the context is closed and the result goes back to the request thread
iframe_task_finish ==
  \E t \in TaskIds :
    /\ tasks[t].pc = "saving"
    /\ LET st == [Store EXCEPT !.file = [exists |-> TRUE, parsable |-> TRUE,
                                         content |-> tasks[t].snap, mtime |-> now],
                               !.last_mtime = now]
       IN  /\ tasks' = [tasks EXCEPT ![t] = FreeTask]
           /\ Step("iframe_task_finish", t, st, <<>>)

(* set_episode_iframe runs on the worker without an await, but not         *)
(* without the request threads: they run between its statements.  The      *)
(* steps below are its statements after a strategy has found a URL: found  *)
(* (iframe_data built), ensured (the title's map is there), assigned (the  *)
(* entry is in the map), then save_cache and the return.  Every statement  *)
(* reads self.cache anew.                                                  *)
\* if anime_id not in self.cache['episode_iframes']: ... = {}
ensure_anime(st, anime_id) ==
  IF anime_id \in DOMAIN st.cache.episode_iframes THEN st
  ELSE [st EXCEPT !.cache.episode_iframes = Put(@, anime_id, EmptyMap)]

\* self.cache['episode_iframes'][anime_id][episode_session] = {...}: a
\* KeyError when the title's map is not in the cache now held
assign_entry(st, anime_id, episode_session, iframe_data, t) ==
  IF anime_id \notin DOMAIN st.cache.episode_iframes
  THEN [raised |-> TRUE, st |-> st]
  ELSE [raised |-> FALSE,
        st |-> [st EXCEPT !.cache.episode_iframes[anime_id] =
                  Put(@, episode_session,
                      [iframe_url |-> iframe_data.iframe_url, timestamp |-> t,
                       success |-> iframe_data.success])]]

\* a strategy returns a URL: iframe_data is built
iframe_found ==
  \E t \in TaskIds, u \in {U1, U4} :
    /\ tasks[t].pc = "querying"
    /\ \A o \in TaskIds : tasks[o].pc \notin {"found", "ensured", "assigned"}
    /\ tasks' = [tasks EXCEPT ![t].pc = "found",
                              ![t].snap = [iframe_url |-> u, success |-> TRUE]]
    /\ Step("iframe_found", t, Store, <<>>)

\* set_episode_iframe, first statement
iframe_store_ensure ==
  \E t \in TaskIds :
    /\ tasks[t].pc = "found"
    /\ tasks' = [tasks EXCEPT ![t].pc = "ensured"]
    /\ Step("iframe_store_ensure", t, ensure_anime(Store, tasks[t].anime), <<>>)

\* set_episode_iframe, second statement.  A KeyError goes to the handler
\* of _scrape_episode_iframe, which stores a failed entry and returns it.
iframe_store_assign ==
  \E t \in TaskIds :
    /\ tasks[t].pc = "ensured"
    /\ \E r \in {assign_entry(Store, tasks[t].anime, tasks[t].session,
                               tasks[t].snap, now)} :
         IF r.raised
         THEN \E error_data \in {[iframe_url |-> None, success |-> FALSE,
                                   error |-> ERR_EXC]} :
                /\ tasks' = [tasks EXCEPT ![t] = FreeTask]
                /\ Step("iframe_return", t,
                        set_episode_iframe(Store, tasks[t].anime, tasks[t].session,
                                           error_data, now),
                        [found |-> tasks[t].snap.iframe_url, data |-> error_data])
         ELSE /\ tasks' = [tasks EXCEPT ![t].pc = "assigned"]
              /\ Step("iframe_store_assign", t, r.st, <<>>)

\* set_episode_iframe, save_cache; then return iframe_data
iframe_store_save ==
  \E t \in TaskIds :
    /\ tasks[t].pc = "assigned"
    /\ tasks' = [tasks EXCEPT ![t] = FreeTask]
    /\ Step("iframe_return", t, save_cache(Store, now),
            [found |-> tasks[t].snap.iframe_url, data |-> tasks[t].snap])

(* --------------------------- specifications ---------------------------- *)
\* the index is one of SearchCatalogs
InitSearch ==
  /\ now = TickHours
  /\ all_anime \in SearchCatalogs
  /\ disk = "ok"
  /\ cache = get_default_cache(now) /\ last_mtime = 0 /\ file = NoFile
  /\ ready = FALSE
  /\ preload = FALSE
  /\ setup_pc = "start"
  /\ tasks = [t \in TaskIds |-> FreeTask]
  /\ lastCall = Call("init", None, None, NonePage,
                     Idle([cache |-> cache], <<>>), FALSE)

\* searches, before and after the start
NextSearch ==
  \/ async_setup
  \/ Tick
  \/ search
  \/ ai_flexible_search

SpecSearch == InitSearch /\ [][NextSearch]_vars

\* the index is one of IndexCatalogs
InitIndex ==
  /\ now = TickHours
  /\ all_anime \in IndexCatalogs
  /\ disk = "ok"
  /\ cache = get_default_cache(now) /\ last_mtime = 0 /\ file = NoFile
  /\ ready = FALSE
  /\ preload = FALSE
  /\ setup_pc = "start"
  /\ tasks = [t \in TaskIds |-> FreeTask]
  /\ lastCall = Call("init", None, None, NonePage,
                     Idle([cache |-> cache], <<>>), FALSE)

\* the two readers of the index's episode lists
NextIndex ==
  \/ ai_get_next_episode
  \/ be_get_episodes

SpecIndex == InitIndex /\ [][NextIndex]_vars

\* the index holds one title that fills less than a page, a page, or more;
\* the cache file is one of InitialFiles
InitPages ==
  /\ now = TickHours
  /\ all_anime \in {LongTitle(n) : n \in {1, EPISODES_PER_PAGE, EPISODES_PER_PAGE + 1}}
  /\ disk = "ok"
  /\ \E f \in InitialFiles :
       \E st \in {load_cache([cache |-> get_default_cache(now), last_mtime |-> 0,
                               file |-> f, disk |-> "ok"], now)} :
         cache = st.cache /\ last_mtime = st.last_mtime /\ file = st.file
  /\ ready = FALSE
  /\ preload = FALSE
  /\ setup_pc = "start"
  /\ tasks = [t \in TaskIds |-> FreeTask]
  /\ lastCall = Call("init", None, None, NonePage,
                     Idle([cache |-> cache], <<>>), FALSE)

\* every producer of an episode page result
NextPages ==
  \/ async_setup
  \/ be_get_episodes
  \/ anime_episodes_scraped

SpecPages == InitPages /\ [][NextPages]_vars

\* extraction and deduplication of scraped episode lists
NextDedup ==
  \/ be_remove_duplicate_episodes
  \/ be_extract_episodes_clean

SpecDedup == Init /\ [][NextDedup]_vars

\* the iframe scraper on every kind of episode page
NextChain ==
  \/ be_scrape_episode_iframe
  \/ clear_cache

SpecChain == Init /\ [][NextChain]_vars

\* the worker storing a found URL beside clear_cache and check_and_reload
NextRace ==
  \/ async_setup
  \/ run_async_in_thread
  \/ iframe_task_start
  \/ iframe_task_loaded
  \/ iframe_found
  \/ iframe_store_ensure
  \/ iframe_store_assign
  \/ iframe_store_save
  \/ clear_cache
  \/ ExternalWrite
  \/ cm_check_and_reload

SpecRace == Init /\ [][NextRace]_vars

\* the routes while the browser has not started
NextNotReady ==
  \/ Tick
  \/ ExternalWrite
  \/ index
  \/ search
  \/ anime_episodes
  \/ anime_episodes_scraped
  \/ watch_episode
  \/ run_async_in_thread

SpecNotReady == Init /\ [][NextNotReady]_vars

\* the home page, the listings and the cache file
Next ==
  \/ Tick
  \/ ExternalWrite
  \/ async_setup
  \/ preload_home_data
  \/ index
  \/ cache_stats
  \/ clear_cache

Spec == Init /\ [][Next]_vars

\* iframe resolution
NextIframe ==
  \/ Tick
  \/ async_setup
  \/ watch_episode
  \/ clear_cache

SpecIframe == Init /\ [][NextIframe]_vars

\* live episode lists
NextEpisodes ==
  \/ Tick
  \/ async_setup
  \/ anime_episodes_scraped
  \/ clear_cache

SpecEpisodes == Init /\ [][NextEpisodes]_vars

\* the cache store written to while the disk fails and recovers
NextStore ==
  \/ DiskChange
  \/ cm_set_anime_episodes
  \/ cm_set_episode_iframe
  \/ cm_set_currently_airing_episodes
  \/ cm_clear_old_cache
  \/ clear_cache

SpecStore == Init /\ [][NextStore]_vars

\* the cache file rewritten by others, loaded and reloaded
NextLoad ==
  \/ Tick
  \/ ExternalWrite
  \/ cm_load_cache
  \/ cm_check_and_reload
  \/ cm_set_popular_anime

SpecLoad == Init /\ [][NextLoad]_vars

\* entries ageing and swept
NextSweep ==
  \/ Tick
  \/ cm_set_anime_episodes
  \/ cm_set_episode_iframe
  \/ cm_clear_old_cache

SpecSweep == Init /\ [][NextSweep]_vars

\* the worker's event loop and the request threads beside it
NextWorker ==
  \/ async_setup
  \/ run_async_in_thread
  \/ iframe_task_start
  \/ iframe_task_loaded
  \/ iframe_task_write
  \/ iframe_task_finish
  \/ cm_check_and_reload
  \/ cache_stats

SpecWorker == Init /\ [][NextWorker]_vars


(* ------------------------------ properties ----------------------------- *)
\* the iframe URL the index records for a pair, None when it records none
IndexedUrl(a, s) ==
  LET e == get_episode(all_anime, a, s)
  IN  IF e # Nothing /\ "iframe_url" \in DOMAIN e[1] /\ e[1].iframe_url # ""
      THEN e[1].iframe_url ELSE None

\* the iframe entry the in-memory cache holds for a pair, if any
StoredIframe(a, s) ==
  IF a \in DOMAIN cache.episode_iframes /\ s \in DOMAIN cache.episode_iframes[a]
  THEN Some(cache.episode_iframes[a][s]) ELSE Nothing

\* this step is a resolveIframe call for the pair, made with the backend ready
Resolves(a, s) ==
  /\ lastCall'.op = "watch_episode"
  /\ lastCall'.ran
  /\ lastCall'.anime = a
  /\ lastCall'.session = s

StoreUnchanged == cache' = cache /\ file' = file /\ last_mtime' = last_mtime

\* C1: when the cache holds a failed entry for a pair and the index holds no
\* iframe URL for it, a resolveIframe call for the pair does not answer from
\* the cache: it goes on to the live scrape, opens a browsing context (unless
\* the browser refuses one), and any success it returns was found by an
\* extraction strategy run in this call.
C1_FailedEntryNotReused ==
  [][\A a \in AnimeIds, s \in Sessions :
       (/\ StoredIframe(a, s) # Nothing
        /\ ~StoredIframe(a, s)[1].success
        /\ IndexedUrl(a, s) = None
        /\ Resolves(a, s))
       => /\ lastCall'.scraped
          /\ lastCall'.raised \/ lastCall'.opened = 1
          /\ (~lastCall'.raised /\ lastCall'.ret.success) => lastCall'.strategies # <<>>
          /\ (~lastCall'.raised /\ ~lastCall'.ret.success) => "error" \in DOMAIN lastCall'.ret
     ]_vars

\* a resolution that met a stored failure, scraped again and found a URL
C1_Witness ==
  /\ lastCall.op = "watch_episode" /\ lastCall.ran
  /\ lastCall.cached # Nothing /\ ~lastCall.cached[1].success
  /\ lastCall.scraped /\ lastCall.opened = 1
  /\ lastCall.ret.success /\ lastCall.strategies = <<1, 2>>

\* C2: resolveIframe goes to the live scrape only when the index holds no
\* iframe URL for the pair and the cache holds no success entry for it; on
\* an index miss with a stored success entry it returns that entry's URL
\* with success, opens no context and leaves cache and file as they were.
C2_ScrapeOnlyOnDoubleMiss ==
  [][\A a \in AnimeIds, s \in Sessions :
       Resolves(a, s) =>
         /\ (lastCall'.scraped \/ lastCall'.opened > 0)
              => /\ IndexedUrl(a, s) = None
                 /\ StoredIframe(a, s) = Nothing \/ ~StoredIframe(a, s)[1].success
         /\ (/\ IndexedUrl(a, s) = None
             /\ StoredIframe(a, s) # Nothing
             /\ StoredIframe(a, s)[1].success)
              => /\ lastCall'.ret = [iframe_url |-> StoredIframe(a, s)[1].iframe_url,
                                     success |-> TRUE]
                 /\ ~lastCall'.scraped /\ lastCall'.opened = 0 /\ ~lastCall'.raised
                 /\ lastCall'.cacheCalls = <<"get_episode_iframe">>
                 /\ StoreUnchanged
     ]_vars

\* a stored success, written before this process started, served on an index miss
C2_Witness ==
  /\ lastCall.op = "watch_episode" /\ lastCall.ran
  /\ lastCall.cached # Nothing /\ lastCall.cached[1].success
  /\ ~lastCall.scraped /\ lastCall.opened = 0
  /\ lastCall.ret = [iframe_url |-> "u_old", success |-> TRUE]
  /\ lastCall.anime = "a2" /\ lastCall.session = "s1"

\* C3: when the index holds a non-empty iframe URL for the pair,
\* resolveIframe returns that URL with success, calls no CacheManager
\* method, leaves cache, file and observed modification time as they were,
\* and opens no browsing context.
C3_IndexHitLeavesCacheAlone ==
  [][\A a \in AnimeIds, s \in Sessions :
       (IndexedUrl(a, s) # None /\ Resolves(a, s))
       => /\ lastCall'.ret = [iframe_url |-> IndexedUrl(a, s), success |-> TRUE]
          /\ lastCall'.cacheCalls = <<>>
          /\ lastCall'.opened = 0 /\ ~lastCall'.scraped /\ ~lastCall'.raised
          /\ StoreUnchanged
     ]_vars

\* an index hit for a title whose cache holds entries of its own
C3_Witness ==
  /\ lastCall.op = "watch_episode" /\ lastCall.ran
  /\ lastCall.anime = "a1" /\ lastCall.session = "s1"
  /\ lastCall.ret = [iframe_url |-> "u_index", success |-> TRUE]
  /\ lastCall.cacheCalls = <<>>
  /\ StoredIframe("a1", "s2") # Nothing

\* C4: a live iframe resolution that got past the cache check and returned
\* has stored its outcome for the pair: the in-memory entry carries the
\* returned success flag and URL and the time of the call.
C4_OutcomeStored ==
  (lastCall.op = "watch_episode" /\ lastCall.ran /\ lastCall.scraped /\ ~lastCall.raised)
  => LET e == StoredIframe(lastCall.anime, lastCall.session)
     IN  /\ e # Nothing
         /\ e[1].success = lastCall.ret.success
         /\ e[1].iframe_url = lastCall.ret.iframe_url
         /\ e[1].timestamp = now
         /\ lastCall.cacheCalls = <<"get_episode_iframe", "set_episode_iframe">>

\* the outcome is an exception caught after the first strategy met an error
C4_Witness ==
  /\ lastCall.op = "watch_episode" /\ lastCall.ran /\ lastCall.scraped
  /\ ~lastCall.raised /\ ~lastCall.ret.success
  /\ lastCall.ret.error = ERR_EXC /\ lastCall.strategies = <<1>>
  /\ StoredIframe(lastCall.anime, lastCall.session) # Nothing
  /\ ~StoredIframe(lastCall.anime, lastCall.session)[1].success

\* C5: the entry stored by a failed live resolution carries that
\* resolution's failure reason in an error field.
C5_FailureReasonStored ==
  (lastCall.op = "watch_episode" /\ lastCall.ran /\ lastCall.scraped
   /\ ~lastCall.raised /\ ~lastCall.ret.success)
  => LET e == StoredIframe(lastCall.anime, lastCall.session)
     IN  /\ e # Nothing
         /\ "error" \in DOMAIN e[1]
         /\ e[1].error = lastCall.ret.error


\* what a listing resolution must do with the entry E it finds, E2 being
\* the entry afterwards: younger than 24 hours, E's items are returned, no
\* context is opened and E stays; otherwise it is a miss, a scrape is
\* attempted, E stays if the scrape raises and is replaced by the returned
\* list, stamped now, if it does not.
ListingRule(E, items, part, E2, E2items) ==
  IF now - E.timestamp < 24
  THEN /\ part.items = items
       /\ ~part.scraped /\ part.opened = 0 /\ ~part.raised
       /\ E2 = E
  ELSE /\ part.scraped
       /\ part.raised => E2 = E
       /\ ~part.raised => (E2.timestamp = now /\ E2items = part.items
                           /\ E2.count = Len(part.items))

\* the cache a handler works on: the home page reconciles first
Seen == IF lastCall'.op = "index" THEN check_and_reload(Store, now).cache ELSE cache

\* C6: a listing entry (currently airing or popular) stamped T is returned
\* by a resolution at every time t with t - T < 24h and is a miss at every
\* time t with t - T >= 24h; the miss is not an error and does not delete
\* the entry.
C6_ListingTTL ==
  [][(lastCall'.op \in {"index", "preload_home_data"} /\ lastCall'.ran)
     => /\ ListingRule(Seen.currently_airing_episodes,
                       Seen.currently_airing_episodes.episodes,
                       lastCall'.ret.airing,
                       cache'.currently_airing_episodes,
                       cache'.currently_airing_episodes.episodes)
        /\ lastCall'.ret.popular.ran
             => ListingRule(Seen.popular_anime,
                            Seen.popular_anime.anime,
                            lastCall'.ret.popular,
                            cache'.popular_anime,
                            cache'.popular_anime.anime)
    ]_vars

\* a miss on an entry at least 24 hours old whose scrape could not open a
\* page: the entry is still there
C6_Witness ==
  /\ lastCall.op = "index" /\ lastCall.ran
  /\ lastCall.ret.airing.scraped /\ lastCall.ret.airing.raised
  /\ now - cache.currently_airing_episodes.timestamp >= TTL_HOURS
  /\ cache.currently_airing_episodes.episodes # <<>>
  /\ ~lastCall.ret.popular.scraped
  /\ now - cache.popular_anime.timestamp > 0

\* C7: on a store that starts without a cache file, and right after
\* clearCache, the first request for a listing misses the cache and
\* performs a live scrape.
C7_UnsetListingIsMiss ==
  [][((\/ lastCall.op = "clear_cache"
       \/ lastCall.op = "async_setup" /\ ~file.exists)
      /\ lastCall'.op \in {"index", "preload_home_data"} /\ lastCall'.ran)
     => /\ lastCall'.ret.airing.scraped
        /\ lastCall'.ret.popular.scraped
    ]_vars

\* the field values a page-1 hit returns for a stored entry
Returned(E) ==
  [title |-> E.title, episodes |-> E.episodes,
   total_episodes |-> IF "total_episodes" \in DOMAIN E THEN E.total_episodes ELSE 0,
   has_next_page |-> IF "has_next_page" \in DOMAIN E THEN E.has_next_page ELSE FALSE,
   current_page |-> IF "current_page" \in DOMAIN E THEN E.current_page ELSE 1,
   next_page |-> IF "next_page" \in DOMAIN E THEN E.next_page ELSE NonePage]

LiveEpisodes(a, p) ==
  /\ lastCall'.op = "anime_episodes_scraped"
  /\ lastCall'.ran
  /\ lastCall'.anime = a
  /\ lastCall'.page = p

\* C8: while an episode-list entry is stored for an anime id, a page-1 live
\* episode request for that id returns the stored title, episodes,
\* total_episodes, has_next_page, current_page and next_page, opens no
\* browsing context and keeps the entry, whatever the entry's age.
C8_EpisodeListNoTTL ==
  [][\A a \in AnimeIds :
       (a \in DOMAIN cache.anime_episodes /\ LiveEpisodes(a, 1))
       => LET E == cache.anime_episodes[a]
          IN  /\ lastCall'.ret = Returned(E)
              /\ ~lastCall'.scraped /\ lastCall'.opened = 0 /\ ~lastCall'.raised
              /\ a \in DOMAIN cache'.anime_episodes
              /\ \A k \in DOMAIN E : cache'.anime_episodes[a][k] = E[k]
              /\ file' = file /\ last_mtime' = last_mtime
     ]_vars

\* a hit on an entry this process stored at least 24 hours earlier
C8_Witness ==
  /\ lastCall.op = "anime_episodes_scraped" /\ lastCall.ran /\ lastCall.page = 1
  /\ ~lastCall.scraped
  /\ lastCall.anime \in DOMAIN cache.anime_episodes
  /\ cache.anime_episodes[lastCall.anime].title = "T"
  /\ now - cache.anime_episodes[lastCall.anime].timestamp >= TTL_HOURS
  /\ lastCall.ret.episodes # <<>>

\* C9: a live episode request for a page other than 1 calls no
\* CacheManager method, always goes to the scrape of that page, and leaves
\* the in-memory cache, the file and the observed modification time as they
\* were.
C9_OtherPagesBypassCache ==
  [][\A a \in AnimeIds, p \in PageNumbers :
       (p # 1 /\ LiveEpisodes(a, p))
       => /\ lastCall'.cacheCalls = <<>>
          /\ lastCall'.cached = Nothing
          /\ lastCall'.scraped
          /\ lastCall'.raised \/ lastCall'.opened = 1
          /\ lastCall'.ret.current_page = p
          /\ StoreUnchanged
     ]_vars

\* a page-2 scrape that found episodes for a title whose page-1 entry is
\* stored and differs from what was scraped
C9_Witness ==
  /\ lastCall.op = "anime_episodes_scraped" /\ lastCall.ran /\ lastCall.page = 2
  /\ lastCall.opened = 1 /\ lastCall.ret.episodes # <<>>
  /\ lastCall.anime \in DOMAIN cache.anime_episodes
  /\ cache.anime_episodes[lastCall.anime].episodes # lastCall.ret.episodes

\* C10: once another process has rewritten the cache file with a newer
\* modification time than the last one observed, the next CacheStore
\* access (here: reading the statistics) reflects the file's content.
C10_NextAccessReflectsFile ==
  [][(/\ file.exists /\ file.parsable
      /\ file.mtime > last_mtime
      /\ lastCall'.op \in {"cache_stats", "index"})
     => lastCall'.ret.stats = get_cache_stats(load_cache(Store, now))
    ]_vars


\* the store as it is after the step
StoreAfter == [cache |-> cache', last_mtime |-> last_mtime', file |-> file', disk |-> disk']

\* C11: when a mutating CacheManager call (a set of a listing, of an
\* episode list or of an iframe entry, a sweep that removed something,
\* clearCache) has returned and the disk write did not fail, the cache file
\* holds exactly the in-memory cache, metadata.last_updated is the time of
\* the call and so is the timestamp of the entry the call wrote.
C11_WriteThenReturn ==
  (/\ disk = "ok"
   /\ \/ lastCall.op \in {"set_anime_episodes", "set_episode_iframe",
                          "set_currently_airing_episodes", "clear_cache"}
      \/ lastCall.op = "clear_old_cache" /\ lastCall.ret[1] > 0)
  => /\ file.exists /\ file.parsable
     /\ file.content = cache
     /\ file.mtime = now /\ last_mtime = now
     /\ cache.metadata.last_updated = now
     /\ lastCall.op = "set_anime_episodes"
          => cache.anime_episodes[lastCall.anime].timestamp = now
     /\ lastCall.op = "set_episode_iframe"
          => cache.episode_iframes[lastCall.anime][lastCall.session].timestamp = now
     /\ lastCall.op = "set_currently_airing_episodes"
          => cache.currently_airing_episodes.timestamp = now
     /\ lastCall.op = "clear_cache"
          => /\ cache.currently_airing_episodes.timestamp = now
             /\ cache.popular_anime.timestamp = now

\* a sweep that removed an entry and wrote the file, an episode list set
\* earlier still being there
C11_Witness ==
  /\ lastCall.op = "clear_old_cache" /\ lastCall.ret[1] > 0
  /\ disk = "ok"
  /\ file.content = cache
  /\ "a1" \in DOMAIN cache.anime_episodes
  /\ cache.metadata.last_updated = now

\* C12: when the write of the cache file fails during a set call, the call
\* returns without raising, the in-memory cache holds the new entry, which
\* the matching get returns, and the last observed modification time is
\* what it was.
C12_FailedWriteKeepsMemory ==
  [][(/\ disk # "ok"
      /\ lastCall'.op \in {"set_anime_episodes", "set_episode_iframe",
                           "set_currently_airing_episodes"})
     => LET d == lastCall'.ret[1]
            a == lastCall'.anime
            s == lastCall'.session
        IN  /\ ~lastCall'.raised
            /\ last_mtime' = last_mtime
            /\ lastCall'.op = "set_anime_episodes"
                 => LET g == get_anime_episodes(StoreAfter, a).ret
                    IN  /\ g # Nothing
                        /\ g[1].title = d.title /\ g[1].episodes = d.episodes
                        /\ g[1].timestamp = now
            /\ lastCall'.op = "set_episode_iframe"
                 => get_episode_iframe(StoreAfter, a, s)
                      = Some([iframe_url |-> d.iframe_url, timestamp |-> now,
                              success |-> d.success])
            /\ lastCall'.op = "set_currently_airing_episodes"
                 => get_currently_airing_episodes(StoreAfter, now) = Some(d)
    ]_vars

\* an iframe entry set while the dump failed: the file is cut short and
\* newer than the last modification time observed
C12_Witness ==
  /\ lastCall.op = "set_episode_iframe"
  /\ disk = "dump_fails"
  /\ file.exists /\ ~file.parsable
  /\ file.mtime > last_mtime
  /\ cache.episode_iframes[lastCall.anime][lastCall.session].success


\* C13: after a load or reload of the cache file, whether the file is
\* missing, unparsable or lacks top-level keys, the in-memory cache has the
\* five top-level keys, a key the file has keeps the file's value, a key it
\* lacks has the default value, an unparsable or missing file gives the
\* default cache, and the call does not raise.
C13_LoadFillsDefaults ==
  [][(lastCall'.op \in {"load_cache", "check_and_reload"})
     => /\ ~lastCall'.raised
        /\ DOMAIN cache' = TopKeys
        /\ file' = file
        /\ (lastCall'.op = "load_cache" \/ (file.exists /\ file.mtime > last_mtime))
             => IF file.exists /\ file.parsable
                THEN \A k \in TopKeys :
                       cache'[k] = IF k \in DOMAIN file.content
                                   THEN file.content[k]
                                   ELSE get_default_cache(now)[k]
                ELSE cache' = get_default_cache(now)
    ]_vars

\* a reload of a file that holds only episode lists: they are kept and the
\* four other keys are filled in
C13_Witness ==
  /\ lastCall.op = "check_and_reload"
  /\ file.exists /\ file.parsable
  /\ DOMAIN file.content = {"anime_episodes"}
  /\ cache.anime_episodes = file.content.anime_episodes
  /\ cache.popular_anime = get_default_cache(now).popular_anime
  /\ last_mtime = file.mtime

\* the iframe entry a cache dictionary holds for a pair, if any
IframeIn(c, a, s) ==
  IF a \in DOMAIN c.episode_iframes /\ s \in DOMAIN c.episode_iframes[a]
  THEN Some(c.episode_iframes[a][s]) ELSE Nothing

\* the episode list a cache dictionary holds for a title, if any
EpisodesIn(c, a) ==
  IF a \in DOMAIN c.anime_episodes THEN Some(c.anime_episodes[a]) ELSE Nothing

\* an entry stamped before now minus the given number of days
Expired(e, days) == e # Nothing /\ e[1].timestamp < now - days * 24

\* C14: a sweep removes exactly the episode lists and iframe entries
\* stamped before now minus max_age_days, returns how many it removed,
\* rewrites the cache file if and only if that number is above zero, and
\* leaves both listings and every newer entry as they were.
C14_SweepExact ==
  [][(lastCall'.op = "clear_old_cache")
     => LET n    == lastCall'.ret[1]
            days == lastCall'.ret[2]
            goneA == {a \in AnimeIds : Expired(EpisodesIn(cache, a), days)}
            goneI == {p \in AnimeIds \X Sessions :
                        Expired(IframeIn(cache, p[1], p[2]), days)}
        IN  /\ \A a \in AnimeIds :
                 EpisodesIn(cache', a) = IF a \in goneA THEN Nothing
                                         ELSE EpisodesIn(cache, a)
            /\ \A p \in AnimeIds \X Sessions :
                 IframeIn(cache', p[1], p[2]) = IF p \in goneI THEN Nothing
                                                ELSE IframeIn(cache, p[1], p[2])
            /\ n = Cardinality(goneA) + Cardinality(goneI)
            /\ cache'.currently_airing_episodes = cache.currently_airing_episodes
            /\ cache'.popular_anime = cache.popular_anime
            /\ n > 0 => (file'.content = cache' /\ file'.mtime = now
                         /\ last_mtime' = now)
            /\ n = 0 => (file' = file /\ last_mtime' = last_mtime /\ cache' = cache)
    ]_vars

\* a sweep that removed something and kept an episode list stamped at or
\* after the cutoff
C14_Witness ==
  /\ lastCall.op = "clear_old_cache" /\ lastCall.ret[1] > 0
  /\ \E a \in AnimeIds :
       /\ a \in DOMAIN cache.anime_episodes
       /\ cache.anime_episodes[a].timestamp >= now - lastCall.ret[2] * 24
       /\ cache.anime_episodes[a].timestamp < now
  /\ cache.episode_iframes = EmptyMap


\* C15: no operation changes an index record after load: after any
\* sequence of calls every record, the order of its episodes included, is
\* as it was right after loading.
C15_IndexRecordsUnchanged == all_anime = Catalog


\* C18: every browsing context opened by a resolution call is closed by
\* the time the call ends, on every exit path, an exception raised during
\* page creation or script injection included.
C18_ContextsClosed == lastCall.opened > 0 => lastCall.leaked = 0


\* C16: at no time are two browser-driven operations in progress together:
\* one call's page loads and element queries finish before the next
\* call's start.
C16_OneBrowserOperation ==
  Cardinality({t \in TaskIds : tasks[t].pc \in {"loading", "querying"}}) <= 1

\* C17: each CacheManager method is atomic for its callers: when the
\* worker's set of an iframe entry has returned, with request threads
\* reconciling and reading statistics meanwhile, memory and file are those
\* of some sequential order of the calls, so the entry is in memory and the
\* file holds the in-memory cache.
C17_CacheCallsAtomic ==
  lastCall.op = "iframe_task_finish"
  => /\ IframeIn(cache, lastCall.anime, lastCall.session) # Nothing
     /\ file.content = cache

\* C20: a search for the title of an index entry returns that very entry
\* first, classified exact with priority 100, also when another entry has
\* the same title or one that normalizes to the same string.
C20_TitleFindsItself ==
  (lastCall.op = "search" /\ ready) =>
    \A i \in 1..Len(all_anime) :
      ("title" \in DOMAIN all_anime[i] /\ all_anime[i].title = lastCall.ret.query) =>
        /\ ~lastCall.raised
        /\ lastCall.ret.results # <<>>
        /\ lastCall.ret.results[1].id = all_anime[i].id
        /\ lastCall.ret.results[1].match_type = "exact"
        /\ FracEq(lastCall.ret.results[1].priority, [n |-> 100, d |-> 1])

PipelineOps == {"search", "anime_episodes", "anime_episodes_scraped", "watch_episode",
                "index", "run_async_in_thread"}

\* C19: while the backend is not ready, a request to search, episodes, live
\* episodes, watch or the home page stops at its readiness check: nothing
\* is submitted to the worker, no context is opened, nothing is scraped or
\* stored; and a submission made while not ready raises instead of running.
C19_NotReadyRunsNothing ==
  [][(~ready /\ lastCall'.op \in PipelineOps) =>
       /\ ~lastCall'.ran
       /\ lastCall'.opened = 0
       /\ ~lastCall'.scraped
       /\ tasks' = tasks
       /\ StoreUnchanged
       /\ all_anime' = all_anime
       /\ (lastCall'.op = "run_async_in_thread" => lastCall'.raised)]_vars

\* a watch request and a submission have been turned away while not ready,
\* with entries waiting in the cache file
C19_Witness ==
  /\ ~ready
  /\ lastCall.op \in {"watch_episode", "run_async_in_thread"}
  /\ ~lastCall.ran
  /\ file.exists

\* the candidates flexible_search keeps for a query; it builds none for
\* the empty query
KeptFor(q) ==
  IF q = <<>> THEN {}
  ELSE {c[1] : c \in {Candidate(all_anime[i], q, normalize_text(q)) :
                        i \in 1..Len(all_anime)} \ {Nothing}}

Range(seq) == {seq[i] : i \in 1..Len(seq)}

\* a comes before b in the order (-priority, title)
RankedBefore(a, b) ==
  \/ b.priority.n * a.priority.d < a.priority.n * b.priority.d
  \/ /\ b.priority.n * a.priority.d = a.priority.n * b.priority.d
     /\ StrLess(a.title, b.title)

\* C21: the sequence a search returns has at most limit results, its
\* priorities do not increase, adjacent results of equal priority are in
\* ascending title order, and it is a prefix of the sorted kept candidates:
\* what is left out is ranked before nothing that is returned.
C21_SortedPrefix ==
  (lastCall.op = "flexible_search" /\ ~lastCall.raised) =>
    \E rs \in {lastCall.ret.results}, kept \in {KeptFor(lastCall.ret.query)} :
      /\ Len(rs) <= lastCall.ret.limit
      /\ \A i \in 1..(Len(rs) - 1) : ~RankedBefore(rs[i + 1], rs[i])
      /\ Range(rs) \subseteq kept
      /\ Cardinality(Range(rs)) = Len(rs)
      /\ Len(rs) = IF Cardinality(kept) < lastCall.ret.limit
                   THEN Cardinality(kept) ELSE lastCall.ret.limit
      /\ \A c \in kept \ Range(rs) : \A i \in 1..Len(rs) : ~RankedBefore(c, rs[i])

\* a search has cut a list of several kept candidates, two of them of equal
\* priority, down to its limit
C21_Witness ==
  /\ lastCall.op = "flexible_search" /\ ~lastCall.raised
  /\ Len(lastCall.ret.results) = lastCall.ret.limit
  /\ Cardinality(KeptFor(lastCall.ret.query)) > lastCall.ret.limit
  /\ lastCall.ret.limit > 1
  /\ FracEq(lastCall.ret.results[1].priority, lastCall.ret.results[2].priority)

\* the priority flexible_search gives a title for a query, 50 * similarity
\* when the title is no exact, starts_with or contains match
PriorityOf(title, q) ==
  IF normalize_text(q) = normalize_text(title) THEN [n |-> 100, d |-> 1]
  ELSE IF StartsWith(normalize_text(title), normalize_text(q))
  THEN [n |-> 80 * similarity_score(q, title).d + 10 * similarity_score(q, title).n,
        d |-> similarity_score(q, title).d]
  ELSE IF IsSubstring(normalize_text(q), normalize_text(title))
  THEN [n |-> 60 * similarity_score(q, title).d + 10 * similarity_score(q, title).n,
        d |-> similarity_score(q, title).d]
  ELSE [n |-> 50 * similarity_score(q, title).n, d |-> similarity_score(q, title).d]

Matched(title, q) ==
  \/ PriorityOf(title, q).n > 20 * PriorityOf(title, q).d
  \/ IsSubstring(normalize_text(q), normalize_text(title))
  \/ StartsWith(normalize_text(title), normalize_text(q))

\* C22: a search that is not cut by its limit returns an index entry if
\* and only if the entry's priority is above 20 or its title contains or
\* starts with the query; when no entry does, the result is empty.
C22_KeptIffMatched ==
  (/\ lastCall.op = "flexible_search" /\ ~lastCall.raised
   /\ lastCall.ret.limit >= Len(all_anime) /\ lastCall.ret.query # <<>>) =>
    /\ \A i \in 1..Len(all_anime) :
         (\E k \in 1..Len(lastCall.ret.results) :
            lastCall.ret.results[k].id = all_anime[i].id)
         <=> Matched(Get(all_anime[i], "title", <<>>), lastCall.ret.query)
    /\ (\A i \in 1..Len(all_anime) :
          ~Matched(Get(all_anime[i], "title", <<>>), lastCall.ret.query))
       => lastCall.ret.results = <<>>

\* a search has kept one entry and dropped another whose similarity to the
\* query is above zero
C22_Witness ==
  /\ lastCall.op = "flexible_search" /\ ~lastCall.raised
  /\ lastCall.ret.limit >= Len(all_anime)
  /\ lastCall.ret.results # <<>>
  /\ \E i \in 1..Len(all_anime) :
       /\ "title" \in DOMAIN all_anime[i]
       /\ similarity_score(lastCall.ret.query, all_anime[i].title).n > 0
       /\ \A k \in 1..Len(lastCall.ret.results) :
            lastCall.ret.results[k].id # all_anime[i].id

\* C23: a search whose query is empty, or empty once normalized, or whose
\* index is empty, returns the empty sequence and raises nothing.
C23_EmptyQueryGivesNothing ==
  (/\ lastCall.op \in {"search", "flexible_search"}
   /\ (normalize_text(lastCall.ret.query) = <<>> \/ all_anime = <<>>)) =>
    /\ ~lastCall.raised
    /\ lastCall.ret.results = <<>>

\* what strategy k meets on a page
Met(k, pg) == <<pg.direct, pg.js, pg.dynamic, pg.interact>>[k]

\* strategy k returns nothing: it finds nothing, or it is the second or the
\* fourth strategy and meets an error
NoResult(k, pg) == Met(k, pg) = None \/ (Met(k, pg) = Raise /\ k \in {2, 4})

\* C27: the strategies that ran are 1, 2, ... in this order, each one after
\* all the earlier ones returned nothing; a URL returned is the one the last
\* strategy that ran found, and no strategy runs after one that found a URL.
C27_FixedOrderFirstWins ==
  (lastCall.op = "scrape_episode_iframe" /\ lastCall.strategies # <<>>) =>
    \E tried \in {lastCall.strategies}, pg \in {lastCall.ret.pg} :
      /\ tried = [i \in 1..Len(tried) |-> i]
      /\ Len(tried) <= 4
      /\ \A i \in 1..(Len(tried) - 1) : NoResult(i, pg)
      /\ lastCall.ret.data.success =>
           /\ Met(Len(tried), pg) \notin {None, Raise}
           /\ lastCall.ret.data.iframe_url = Met(Len(tried), pg)
      /\ (~lastCall.ret.data.success /\ Len(tried) = 4 /\ Met(4, pg) # Raise) =>
           \A i \in 1..4 : NoResult(i, pg)

\* a page on which the last strategy would find a URL has been resolved by
\* the second strategy, or by the last after the first three found nothing
C27_Witness ==
  /\ lastCall.op = "scrape_episode_iframe"
  /\ lastCall.ret.data.success
  /\ lastCall.strategies \in {<<1, 2>>, <<1, 2, 3, 4>>}
  /\ lastCall.ret.pg.interact = U4

\* the chain of strategies ran in the last call
ChainRan ==
  /\ lastCall.op = "scrape_episode_iframe"
  /\ lastCall.scraped /\ ~lastCall.raised
  /\ lastCall.ret.pg.nav = "ok"
  /\ ~(lastCall.ret.pg.title \in {"404", "Not Found"})

\* C28: a strategy that raises counts as one that found nothing: when some
\* strategy would find a URL on the page, the call succeeds with the URL of
\* the first strategy that finds one.
C28_StrategyFailureRecovered ==
  (ChainRan /\ \E j \in 1..4 : Met(j, lastCall.ret.pg) \notin {None, Raise}) =>
    /\ lastCall.ret.data.success
    /\ \E j \in 1..4 :
         /\ Met(j, lastCall.ret.pg) \notin {None, Raise}
         /\ \A i \in 1..(j - 1) : Met(i, lastCall.ret.pg) \in {None, Raise}
         /\ lastCall.ret.data.iframe_url = Met(j, lastCall.ret.pg)

\* C29: on a not-found page no strategy runs, the call returns a failure,
\* and a failed entry for the pair is in the store when it returns.
C29_NotFoundShortCircuits ==
  (/\ lastCall.op = "scrape_episode_iframe"
   /\ lastCall.scraped /\ ~lastCall.raised
   /\ lastCall.ret.pg.nav = "ok"
   /\ lastCall.ret.pg.title \in {"404", "Not Found"}) =>
    /\ lastCall.strategies = <<>>
    /\ ~lastCall.ret.data.success
    /\ lastCall.ret.data.iframe_url = None
    /\ lastCall.cacheCalls = <<"get_episode_iframe", "set_episode_iframe">>
    /\ lastCall.anime \in DOMAIN cache.episode_iframes
    /\ lastCall.session \in DOMAIN cache.episode_iframes[lastCall.anime]
    /\ ~cache.episode_iframes[lastCall.anime][lastCall.session].success
    /\ cache.episode_iframes[lastCall.anime][lastCall.session].iframe_url = None

\* a page titled Not Found, whose direct iframe would have been found, has
\* been met
C29_Witness ==
  /\ lastCall.op = "scrape_episode_iframe"
  /\ lastCall.scraped /\ lastCall.opened = 1
  /\ lastCall.ret.pg.title = "Not Found"
  /\ lastCall.ret.pg.direct = U1
  /\ lastCall.strategies = <<>>

\* C30: check_and_reload on a file newer than the last one observed leaves
\* the store holding what the file holds and last_mtime at the file's time;
\* on a file that is not newer, or missing, it changes neither.
C30_ReloadIffNewer ==
  [][lastCall'.op = "check_and_reload" =>
       IF file.exists /\ file.mtime > last_mtime
       THEN /\ \A k \in DOMAIN file.content : cache'[k] = file.content[k]
            /\ last_mtime' = file.mtime
       ELSE cache' = cache /\ last_mtime' = last_mtime]_vars

\* the positions of a list that hold the first record of a session
FirstOfSession(in) ==
  {i \in 1..Len(in) :
     /\ in[i].session # ""
     /\ \A j \in 1..(i - 1) : in[j].session # in[i].session}

\* C26: deduplication returns the records standing first for their session
\* id, in input order: a subsequence of the input holding every session id
\* once; deduplicating the result again changes nothing.
C26_DedupFirstWins ==
  lastCall.op = "remove_duplicate_episodes" =>
    \E in \in {lastCall.ret.episodes}, out \in {lastCall.ret.unique} :
      /\ Len(out) = Cardinality(FirstOfSession(in))
      /\ \A i \in FirstOfSession(in) :
           out[Cardinality({j \in FirstOfSession(in) : j <= i})] = in[i]
      /\ \A i \in 1..Len(in) :
           in[i].session # "" =>
             Cardinality({k \in 1..Len(out) : out[k].session = in[i].session}) = 1
      /\ remove_duplicate_episodes(out) = out

\* a list has been deduplicated in which a session comes back with another
\* record after a record of a different session
C26_Witness ==
  /\ lastCall.op = "remove_duplicate_episodes"
  /\ Len(lastCall.ret.episodes) >= 3
  /\ Len(lastCall.ret.unique) = 2
  /\ lastCall.ret.episodes[1].session = lastCall.ret.episodes[3].session
  /\ lastCall.ret.episodes[1] # lastCall.ret.episodes[3]
  /\ lastCall.ret.episodes[2].session \notin {"", lastCall.ret.episodes[1].session}

\* the place each episode of a list takes once the list is ordered by number
\* with equal numbers keeping their order; the stored place when some number
\* is not numeric
PlaceByNumber(eps) ==
  IF \A j \in 1..Len(eps) : eps[j].number.k \in {"int", "numstr"}
  THEN [j \in 1..Len(eps) |->
          1 + Cardinality({k \in 1..Len(eps) :
                             \/ eps[k].number.v < eps[j].number.v
                             \/ eps[k].number.v = eps[j].number.v /\ k < j})]
  ELSE [j \in 1..Len(eps) |-> j]

\* the episode expected after the one of id sid: place is the ordering, at
\* the places where sid stands
ExpectedNext(eps, place, sid) ==
  With({place[j] : j \in {i \in 1..Len(eps) : eps[i].episode_id = sid}},
       LAMBDA at :
         IF at = {} THEN Nothing
         ELSE With(CHOOSE x \in at : \A y \in at : x <= y,
                   LAMBDA first :
                     IF first = Len(eps) THEN Nothing
                     ELSE Some(eps[CHOOSE j \in 1..Len(eps) : place[j] = first + 1])))

\* C24: get_next_episode returns the episode that follows the one of the
\* given id when the title's episodes are ordered by number with a stable
\* sort (the stored order when a number is not numeric), and nothing when
\* the title is unknown, no episode has the id or the episode is last; it
\* never raises.
C24_NextInStableOrder ==
  [][lastCall'.op = "get_next_episode" =>
       /\ ~lastCall'.raised
       /\ \E known \in {{i \in 1..Len(all_anime) : all_anime[i].id = lastCall'.anime}} :
            IF known = {} THEN lastCall'.ret = Nothing
            ELSE \E rec \in {all_anime[CHOOSE i \in known : \A k \in known : i <= k]} :
                   IF "episodes" \notin DOMAIN rec THEN lastCall'.ret = Nothing
                   ELSE \E place \in {PlaceByNumber(rec.episodes)} :
                          lastCall'.ret =
                            ExpectedNext(rec.episodes, place, lastCall'.session)]_vars

\* the next episode has been asked for after an episode whose number another
\* episode stored later shares, and that later episode came back
C24_Witness ==
  /\ lastCall.op = "get_next_episode"
  /\ lastCall.anime = "a1" /\ lastCall.session = "s1"
  /\ lastCall.ret = Some(EpK("numstr", 1, "s4"))

\* the index record a call of get_episodes read, when it has one whose
\* numbers int() all converts
PagedRecords ==
  {rec \in {all_anime[i] : i \in {FirstIndex({j \in 1..Len(all_anime) :
                                                all_anime[j].id = lastCall.anime},
                                             1, Len(all_anime))} \ {0}} :
     /\ "episodes" \in DOMAIN rec
     /\ \A j \in 1..Len(rec.episodes) : rec.episodes[j].number.k \in {"int", "numstr"}}

\* entry e of a page shows episode ep of the record
Shows(e, ep) == e.session = ep.episode_id /\ e.number = ep.number

\* the number of pages that n episodes fill
PageCount(n) == (n + EPISODES_PER_PAGE - 1) \div EPISODES_PER_PAGE

\* C25: page p of an index-backed list of n episodes holds the episodes at
\* places (p-1)*50+1 to min(p*50, n) of the list ordered by number;
\* has_next_page is true exactly when p*50 < n, next_page is p+1 then and
\* null otherwise, total_episodes is n; the pages 1 to ceil(n/50) together
\* hold every episode exactly once.
C25_PagesOfFifty ==
  lastCall.op = "get_episodes" =>
    \A rec \in PagedRecords :
      \E eps \in {rec.episodes}, p \in {lastCall.page}, out \in {lastCall.ret} :
        \E n \in {Len(eps)}, place \in {PlaceByNumber(eps)} :
          /\ ~lastCall.raised
          /\ out.total_episodes = n
          /\ out.current_page = p
          /\ out.has_next_page <=> p * EPISODES_PER_PAGE < n
          /\ out.next_page = IF p * EPISODES_PER_PAGE < n THEN p + 1 ELSE NonePage
          /\ \A j \in 1..n :
               IF /\ (p - 1) * EPISODES_PER_PAGE + 1 <= place[j]
                  /\ place[j] <= p * EPISODES_PER_PAGE
               THEN /\ place[j] - (p - 1) * EPISODES_PER_PAGE <= Len(out.episodes)
                    /\ Shows(out.episodes[place[j] - (p - 1) * EPISODES_PER_PAGE], eps[j])
               ELSE TRUE
          /\ Len(out.episodes) =
               Cardinality({j \in 1..n : /\ (p - 1) * EPISODES_PER_PAGE + 1 <= place[j]
                                         /\ place[j] <= p * EPISODES_PER_PAGE})
          /\ \E pages \in {[q \in 1..PageCount(n) |->
                              get_episodes(all_anime, lastCall.anime, q).ret.episodes]} :
               /\ \A q \in 1..PageCount(n) : Len(pages[q]) >= 1
               /\ \A j \in 1..n :
                    Shows(pages[((place[j] - 1) \div EPISODES_PER_PAGE) + 1]
                               [((place[j] - 1) % EPISODES_PER_PAGE) + 1], eps[j])
               /\ Cardinality({<<q, k>> \in (1..PageCount(n)) \X (1..EPISODES_PER_PAGE) :
                                 k <= Len(pages[q])}) = n

\* the last page of a list of more than two full pages has been asked for:
\* it starts at episode 101, holds what is left and announces no next page
C25_Witness ==
  /\ lastCall.op = "get_episodes" /\ ~lastCall.raised
  /\ lastCall.page = 3
  /\ lastCall.ret.total_episodes > 2 * EPISODES_PER_PAGE
  /\ Len(lastCall.ret.episodes) = lastCall.ret.total_episodes - 2 * EPISODES_PER_PAGE
  /\ lastCall.ret.episodes[1].number = Num(2 * EPISODES_PER_PAGE + 1)
  /\ ~lastCall.ret.has_next_page
  /\ lastCall.ret.next_page = NonePage

\* the index record of the title a call of get_episodes named, if any
ReadRecords ==
  {all_anime[i] : i \in {FirstIndex({j \in 1..Len(all_anime) :
                                       all_anime[j].id = lastCall.anime},
                                    1, Len(all_anime))} \ {0}}

\* C31: the index-backed episode list is deduplicated like the live one: no
\* two episodes of the returned pages share a session id, and total_episodes
\* counts each session id of the record once.
C31_IndexListDeduplicated ==
  (lastCall.op = "get_episodes" /\ ~lastCall.raised) =>
    \A rec \in ReadRecords :
      \E eps \in {Get(rec, "episodes", <<>>)}, out \in {lastCall.ret} :
        /\ \A i, j \in 1..Len(out.episodes) :
             out.episodes[i].session = out.episodes[j].session => i = j
        /\ out.total_episodes =
             Cardinality({eps[j].episode_id : j \in 1..Len(eps)})

\* C32: building the index-backed episode list raises for no value of an
\* episode's number; when the numbers cannot all be compared numerically
\* the episodes come back in their stored order.
C32_NumberNeverRaises ==
  lastCall.op = "get_episodes" =>
    /\ ~lastCall.raised
    /\ \A rec \in ReadRecords :
         \E eps \in {Get(rec, "episodes", <<>>)} :
           (\E j \in 1..Len(eps) : eps[j].number.k \notin {"int", "numstr"}) =>
             /\ Len(lastCall.ret.episodes) =
                  Len(SubSeq(eps, (lastCall.page - 1) * EPISODES_PER_PAGE + 1, Len(eps)))
             /\ \A k \in 1..Len(lastCall.ret.episodes) :
                  Shows(lastCall.ret.episodes[k],
                        eps[(lastCall.page - 1) * EPISODES_PER_PAGE + k])

\* the records of the first of the three methods that yields any
FirstYield(epg) ==
  IF Records(epg.rows) # <<>> THEN Records(epg.rows)
  ELSE IF Records(epg.links) # <<>> THEN Records(epg.links)
  ELSE Records(epg.containers)

\* C33: live extraction returns the records of exactly one method, the
\* first of rows, links, containers that yields at least one record; a
\* method whose elements yield no record is passed over.
C33_FirstYieldingMethod ==
  (lastCall.op = "extract_episodes_clean" /\ lastCall.ret.epg.extract = "ok") =>
    lastCall.ret.episodes = FirstYield(lastCall.ret.epg)

\* after clear_cache every read of the in-memory store misses and the
\* statistics count nothing
ReadsMissAfterClear ==
  /\ \A a \in AnimeIds : get_anime_episodes(Store, a).ret = Nothing
  /\ \A a \in AnimeIds, e \in Sessions : get_episode_iframe(Store, a, e) = Nothing
  /\ \E stats \in {get_cache_stats(Store)} :
       /\ stats.anime_cached = 0
       /\ stats.iframes_cached = 0
       /\ stats.currently_airing_episodes_cached = 0
       /\ stats.popular_anime_cached = 0

\* the cache file holds the empty default store
FileHoldsDefault ==
  /\ file.exists /\ file.parsable
  /\ file.content.anime_episodes = EmptyMap
  /\ file.content.episode_iframes = EmptyMap
  /\ file.content.currently_airing_episodes.episodes = <<>>
  /\ file.content.popular_anime.anime = <<>>

\* C34 as stated: after clear_cache returns, no title has a cached episode
\* list and no pair a cached iframe entry, the statistics count no title, no
\* iframe and no listing item, and the cache file holds the empty default
\* store.
C34_ClearEmptiesStoreAndFile ==
  lastCall.op = "clear_cache" => ReadsMissAfterClear /\ FileHoldsDefault

\* C34: after clear_cache returns, ready or not, every read of the store
\* misses and the statistics count nothing; the cache file holds the empty
\* default store when the write did not fail.
C34_ClearEmptiesStore ==
  lastCall.op = "clear_cache" =>
    /\ ~lastCall.raised
    /\ ReadsMissAfterClear
    /\ disk = "ok" => FileHoldsDefault /\ file.content = cache

\* the cache has been cleared while the file could not be opened for
\* writing: the file still holds an episode list
C34_Witness ==
  /\ lastCall.op = "clear_cache"
  /\ disk = "open_fails"
  /\ file.exists /\ file.parsable
  /\ file.content.anime_episodes # EmptyMap
  /\ cache.anime_episodes = EmptyMap

\* C35: when a strategy has found a player URL, the call returns success
\* with that URL and the entry stored for the pair is a success entry
\* holding it, whatever clear_cache and check_and_reload did on request
\* threads while the worker stored it.
C35_FoundUrlReturnedAndStored ==
  lastCall.op = "iframe_return" =>
    /\ lastCall.ret.data.success
    /\ lastCall.ret.data.iframe_url = lastCall.ret.found
    /\ \E got \in {get_episode_iframe(Store, lastCall.anime, lastCall.session)} :
         /\ got # Nothing
         /\ got[1].success
         /\ got[1].iframe_url = lastCall.ret.found

\* the coroutines whose live scrape is in progress: context open, page
\* loading or being queried, or the result being stored
Scraping ==
  {t \in TaskIds : tasks[t].pc \in {"loading", "querying", "saving"}}

\* C36: for one pair at most one live scrape is in progress at any time: a
\* request arriving while another scrapes the same pair starts no scrape.
C36_OneScrapePerPair ==
  \A t, u \in Scraping :
    (tasks[t].anime = tasks[u].anime /\ tasks[t].session = tasks[u].session) => t = u

\* a listing resolution that went past the cache returned its list and the
\* store holds that list, stamped now
MissStored(part, rec, key) ==
  part.scraped =>
    /\ ~part.raised
    /\ rec[key] = part.items
    /\ rec.timestamp = now
    /\ rec.count = Len(part.items)

\* a request for a listing stored less than 24 hours ago, with no reload
\* before it, got the stored list and opened no context
HitServed(part, rec, key) ==
  (now - rec.timestamp < TTL_HOURS /\ ~(file.exists /\ file.mtime > last_mtime)) =>
    /\ part.items = rec[key]
    /\ ~part.scraped /\ ~part.raised
    /\ part.opened = 0

\* C37: a listing resolution that misses the cache returns a list and has
\* stored exactly that list with a fresh timestamp, the fallback included;
\* a later request within 24 hours, with no clearing or reload in between,
\* returns the stored list and opens no browsing context.
C37_ListingMissStoresAndServes ==
  [][(lastCall'.op \in {"index", "preload_home_data"} /\ lastCall'.ran) =>
       /\ MissStored(lastCall'.ret.airing, cache'.currently_airing_episodes, "episodes")
       /\ MissStored(lastCall'.ret.popular, cache'.popular_anime, "anime")
       /\ lastCall'.op = "index" =>
            /\ HitServed(lastCall'.ret.airing, cache.currently_airing_episodes, "episodes")
            /\ HitServed(lastCall'.ret.popular, cache.popular_anime, "anime")]_vars

\* the stored episode list e holds the page result r
StoresResult(e, r) ==
  /\ e.title = r.title
  /\ e.episodes = r.episodes
  /\ e.total_episodes = r.total_episodes
  /\ e.has_next_page = r.has_next_page
  /\ e.current_page = r.current_page
  /\ e.next_page = r.next_page

\* C38: a page-1 live scrape that ends in an exception returns the empty
\* result with has_next_page false and leaves the cache as it was; one that
\* ends without an exception stores its result, also when it holds no
\* episode; a page-1 request that finds a stored list scrapes nothing.
C38_OnlyCompletedScrapeStored ==
  [][(/\ lastCall'.op = "anime_episodes_scraped"
      /\ lastCall'.ran
      /\ lastCall'.page = 1) =>
       IF lastCall'.anime \in DOMAIN cache.anime_episodes
       THEN ~lastCall'.scraped /\ lastCall'.opened = 0
       ELSE /\ ~lastCall'.raised
            /\ IF lastCall'.ret = ErrorPage(1)
               THEN cache' = cache
               ELSE /\ lastCall'.anime \in DOMAIN cache'.anime_episodes
                    /\ StoresResult(cache'.anime_episodes[lastCall'.anime], lastCall'.ret)
                    /\ cache'.anime_episodes[lastCall'.anime].timestamp = now]_vars

\* the call returned an episode page result; when the result is a cached
\* list, the list was stored after this process started
PageResultOfThisProcess ==
  /\ lastCall.op \in {"get_episodes", "anime_episodes_scraped"}
  /\ lastCall.ran /\ ~lastCall.raised
  /\ lastCall.cached # Nothing => lastCall.cached[1].timestamp >= TickHours

\* C39: in every episode page result has_next_page is true exactly when
\* next_page is not null, next_page when present is greater than
\* current_page, and current_page is the requested page.
C39_PageFieldsAgree ==
  PageResultOfThisProcess =>
    /\ lastCall.ret.has_next_page <=> lastCall.ret.next_page # NonePage
    /\ lastCall.ret.next_page # NonePage =>
         lastCall.ret.next_page > lastCall.ret.current_page
    /\ lastCall.ret.current_page = lastCall.page

\* a live scrape of page 2 has found no next control but a link numbered 3
C39_Witness ==
  /\ lastCall.op = "anime_episodes_scraped"
  /\ lastCall.ran /\ ~lastCall.raised /\ lastCall.scraped
  /\ lastCall.page = 2
  /\ lastCall.ret.has_next_page
  /\ lastCall.ret.next_page = 3

\* the place of a match type in a result list
TypeRank(match_type) ==
  CASE match_type = "exact" -> 1
    [] match_type = "starts_with" -> 2
    [] match_type = "contains" -> 3
    [] OTHER -> 4

\* the priority p = n / d lies in the range of its match type
InTypeRange(match_type, p) ==
  CASE match_type = "exact" -> p.n = 100 * p.d
    [] match_type = "starts_with" -> 80 * p.d <= p.n /\ p.n <= 90 * p.d
    [] match_type = "contains" -> 60 * p.d <= p.n /\ p.n <= 70 * p.d
    [] OTHER -> 20 * p.d < p.n /\ p.n <= 50 * p.d

\* C40: the priorities of the four match types lie in ranges that do not
\* overlap (exact 100, starts_with 80 to 90, contains 60 to 70, similar
\* above 20 up to 50), so every search result lists exact matches before
\* starts_with matches before contains matches before similar ones.
C40_MatchTypesInOrder ==
  (lastCall.op = "flexible_search" /\ ~lastCall.raised) =>
    \E rs \in {lastCall.ret.results} :
      /\ \A k \in 1..Len(rs) : InTypeRange(rs[k].match_type, rs[k].priority)
      /\ \A i, j \in 1..Len(rs) :
           i < j => TypeRank(rs[i].match_type) <= TypeRank(rs[j].match_type)

\* a search has returned a match of each of the four types
C40_Witness ==
  /\ lastCall.op = "flexible_search" /\ ~lastCall.raised
  /\ {lastCall.ret.results[k].match_type : k \in 1..Len(lastCall.ret.results)}
       = {"exact", "starts_with", "contains", "similar"}
====
